---- MODULE Spec2Model ----
(***************************************************************************)
(* A model of the sinkr deployment engine: the store (peers, channels,     *)
(* subscriptions, stored channel messages), the per-shard peer registry,   *)
(* the websocket hooks (message, close) and handleSource, the routing of   *)
(* a source request on the coordinator and on the worker shards.           *)
(*                                                                         *)
(* Every `await` of the code is a step of its own: a handler is a small    *)
(* process whose program counter names the await it is suspended on, and   *)
(* the synchronous code that follows an await belongs to the same step.    *)
(***************************************************************************)
EXTENDS Integers, Sequences, FiniteSets, TLC

\* ------------------------------------------------------------------ bounds
\* Number of source envelopes handled in one behaviour (one slot each).
MaxReqs == 2
\* Largest value of the store's CURRENT_TIMESTAMP clock.
MaxClock == 2
\* Number of request-stored-messages frames a sink sends in one behaviour.
MaxSinkReqs == 1

\* ------------------------------------------------------------- the domains
Coord == "coord"
Shards == {"s1", "s2"}
Sites == {Coord} \cup Shards
Slots == 1..MaxReqs
SourceId == "src"
SinkIds == {"p1", "p2", "p3"}
PeerIds == SinkIds \cup {SourceId}
UserIds == {"u1", "u2"}
ChannelIds == {"c1", "c2"}
MsgIds == {"m1", "m2"}
AuthModes == {"public", "private", "presence"}
\* A column that is NULL, and a frame field that is undefined.
Null == "null"
Undefined == "undefined"
ActIds == Slots \X Sites

VARIABLES
    peers,          \* table peer
    channels,       \* table channel
    subscriptions,  \* table peerChannelSubscription
    storedMessages, \* table storedChannelMessages
    clock,          \* CURRENT_TIMESTAMP of the store
    rowSeq,         \* the last generated row id of peerChannelSubscription
    live,           \* the peers whose socket is open (ws.peers of their site)
    shardOf,        \* the durable object that holds each peer's socket
    registered,     \* the worker shards in the coordinator's table
    inbox,          \* the frames each peer has received, in order
    acts,           \* the activations of handleSource, one per slot and site
    closing,        \* the activations of hooks.close, one per peer
    sinkreq,        \* the activations of hooks.message for a sink, one per peer
    sinkBudget,     \* request-stored-messages frames still to be sent
    opening,        \* the activations of hooks.open, one per peer
    broken          \* the open sockets on which peer.send throws

vars == <<peers, channels, subscriptions, storedMessages, clock, rowSeq, live,
          shardOf, registered, inbox, acts, closing, sinkreq, sinkBudget,
          opening, broken>>

store == <<peers, channels, subscriptions, storedMessages, clock, rowSeq>>

\* ------------------------------------------------------------------ tables
\* The tenant registry's rows; the engine only reads them.
apps ==
    { [id |-> "A", secretKey |-> "kA", enabled |-> TRUE],
      [id |-> "B", secretKey |-> "kB", enabled |-> TRUE],
      [id |-> "D", secretKey |-> "kD", enabled |-> FALSE] }

PeerRow(id, appId, type, user, info) ==
    [id |-> id, appId |-> appId, type |-> type,
     authenticatedUserId |-> user, userInfo |-> info]

ChannelRow(id, appId, name, auth, st) ==
    [id |-> id, appId |-> appId, name |-> name, auth |-> auth, store |-> st]

SubscriptionRow(id, appId, peerId, channelId) ==
    [id |-> id, appId |-> appId, peerId |-> peerId, channelId |-> channelId]

MessageRow(id, appId, channelId, createdAt, data) ==
    [id |-> id, appId |-> appId, channelId |-> channelId,
     createdAt |-> createdAt, data |-> data]

\* The table without its unique index: every row may go in.
pcs_unique_dropped(tbl, appId, peerId, channelId) == TRUE

\* uniqueIndex("pcs_unique").on(appId, peerId, channelId): may this row go in?
pcs_unique(tbl, appId, peerId, channelId) ==
    ~ \E r \in tbl :
        r.appId = appId /\ r.peerId = peerId /\ r.channelId = channelId

\* The table without its references(): nothing is required to exist.
pcs_references_dropped(appId, peerId, channelId) == TRUE

\* The references() of peerChannelSubscription: app, peer and channel exist.
pcs_references(appId, peerId, channelId) ==
    /\ \E a \in apps : a.id = appId
    /\ \E p \in peers : p.id = peerId
    /\ \E c \in channels : c.id = channelId

\* storedChannelMessages: id is the primary key, app and channel are referenced.
scm_insertable_noChannel(id, appId, channelId) ==
    /\ ~ \E m \in storedMessages : m.id = id
    /\ \E a \in apps : a.id = appId

scm_insertable(id, appId, channelId) ==
    /\ ~ \E m \in storedMessages : m.id = id
    /\ \E a \in apps : a.id = appId
    /\ \E c \in channels : c.id = channelId

\* blob({ mode: "json" }), writing: the column holds JSON.stringify(data),
\* the members of the request one after the other.
JSON_stringify(data) ==
    LET keys == SelectSeq(<<"channelId", "event", "message">>,
                          LAMBDA k : k \in DOMAIN data)
    IN [i \in 1..Len(keys) |-> <<keys[i], data[keys[i]]>>]

\* blob({ mode: "json" }), reading: JSON.parse of the column.
JSON_parse(text) ==
    [k \in { text[i][1] : i \in 1..Len(text) } |->
        text[CHOOSE i \in 1..Len(text) : text[i][1] = k][2]]

\* delete from peer where id = ..., with onDelete: "cascade" of the subscriptions.
subscriptionsAfterPeerDelete(peerId) ==
    { r \in subscriptions : r.peerId # peerId }

\* All the sequences that list the elements of S once each.
RECURSIVE Orderings(_)
Orderings(S) ==
    IF S = {} THEN { <<>> }
    ELSE UNION { { <<x>> \o rest : rest \in Orderings(S \ {x}) } : x \in S }

\* The orders in which a query without orderBy can return the rows S.
OrderedByNothing(S) == Orderings(S)

\* All the orders in which a query with orderBy asc(createdAt) can return the
\* rows S: ties are in no defined order.
RECURSIVE OrderedByCreatedAt(_)
OrderedByCreatedAt(S) ==
    IF S = {} THEN { <<>> }
    ELSE LET least == { m \in S : \A o \in S : m.createdAt <= o.createdAt }
         IN UNION { { <<m>> \o rest : rest \in OrderedByCreatedAt(S \ {m}) }
                    : m \in least }

HasField(value, f) == f \in DOMAIN value

Range(q) == { q[i] : i \in 1..Len(q) }

\* ------------------------------------------------------------ peer registry
\* getPeerMap() on a durable object: the live sockets that object holds.
getPeerMap(site) == { p \in live : shardOf[p] = site }

NoFrames == [p \in PeerIds |-> <<>>]

\* sendToPeer, for a batch of frames produced by one synchronous run of code:
\* out[p] is the sequence of frames sent to p.
sendToPeer(out) == inbox' = [p \in PeerIds |-> inbox[p] \o out[p]]

Targets(out) == { p \in PeerIds : out[p] # <<>> }
Only(out, S) == [p \in PeerIds |-> IF p \in S THEN out[p] ELSE <<>>]
Both(o1, o2) == [p \in PeerIds |-> o1[p] \o o2[p]]

\* What a run of sends comes to. peer.send throws on a socket in `broken`
\* and sendToPeer catches nothing, so the run ends at the first such socket:
\* `first` is sent before the loop and `rest` by a forEach over rows or
\* sockets whose order the code does not fix, so the peers served before
\* the throw are any of the healthy targets of the loop.
sendOutcomes(first, rest) ==
    IF Targets(first) \cap broken # {}
    THEN { [delivered |-> NoFrames, threw |-> TRUE] }
    ELSE IF Targets(rest) \cap broken = {}
    THEN { [delivered |-> Both(first, rest), threw |-> FALSE] }
    ELSE { [delivered |-> Both(first, Only(rest, S)), threw |-> TRUE] :
            S \in SUBSET (Targets(rest) \ broken) }

\* The socket of p goes bad while it is still among the durable object's
\* peers: from now on peer.send on it throws.
SocketBreaks(p) ==
    /\ p \in live /\ p \notin broken
    /\ broken' = broken \cup {p}
    /\ UNCHANGED <<store, live, shardOf, registered, inbox, acts, closing,
                   sinkreq, sinkBudget, opening>>

\* ----------------------------------------------------------------- frames
\* A member entry that carries userInfo whatever the auth mode.
member_withUserInfo(auth, row) ==
    [id |-> IF row.authenticatedUserId # Null
            THEN row.authenticatedUserId ELSE row.id,
     userInfo |-> row.userInfo]

\* A member entry: { id: authenticatedUserId ?? id, userInfo: presence ? .. }.
member(auth, row) ==
    [id |-> IF row.authenticatedUserId # Null
            THEN row.authenticatedUserId ELSE row.id,
     userInfo |-> IF auth = "presence" THEN row.userInfo ELSE Undefined]

\* new UTCDate(createdAt): the stored CURRENT_TIMESTAMP text, a count of
\* seconds here, as an instant in milliseconds.
UTCDate(createdAt) == createdAt * 1000

joinChannelFrame(id, ch, messages, existing) ==
    [source |-> "metadata", id |-> id, event |-> "join-channel",
     channelId |-> ch.id, channelAuthMode |-> ch.auth, channelName |-> ch.name,
     channelStoredMessages |->
        [i \in 1..Len(messages) |->
            [id |-> messages[i].id, date |-> UTCDate(messages[i].createdAt)]],
     members |-> { member(ch.auth, r) : r \in existing }]

memberJoinFrame(id, ch, dbPeer) ==
    [source |-> "metadata", id |-> id, event |-> "member-join",
     channelId |-> ch.id, member |-> member(ch.auth, dbPeer)]

leaveChannelFrame(id, ch) ==
    [source |-> "metadata", id |-> id, event |-> "leave-channel",
     channelId |-> ch.id]

memberLeaveFrame(id, ch, dbPeer) ==
    [source |-> "metadata", id |-> id, event |-> "member-leave",
     channelId |-> ch.id, member |-> member(ch.auth, dbPeer)]

broadcastFrame(id, event, message) ==
    [source |-> "message", id |-> id, event |-> event,
     from |-> [source |-> "broadcast"], message |-> message]

directFrame(id, event, message) ==
    [source |-> "message", id |-> id, event |-> event,
     from |-> [source |-> "direct"], message |-> message]

channelMessageFrame(id, channelId, event, message) ==
    [source |-> "message", id |-> id, event |-> event,
     from |-> [source |-> "channel", channelId |-> channelId],
     message |-> message]

\* ------------------------------------------------------------- activations
Ok == [success |-> TRUE, error |-> ""]
Err(e) == [success |-> FALSE, error |-> e]

\* An activation of handleSource: its arguments, the await it is suspended on
\* (pc), its local variables, its return value (resp) or the exception it
\* threw (error). Four fields are history: `sent`, the frames the activation
\* has sent; `inserted`, whether its insert committed; `atCommit`, the other
\* subscribers' peer rows at that moment; `already`, whether the row it
\* inserts was in the table when the insert ran.
IdleAct ==
    [pc |-> "idle", route |-> "", id |-> "", appId |-> "", req |-> <<>>,
     ch |-> {}, messages |-> <<>>, dbPeer |-> {}, existingSubs |-> {},
     subscriptions |-> {}, isInChannel |-> {}, resp |-> Err(""),
     spawned |-> {}, error |-> "",
     sent |-> NoFrames, inserted |-> FALSE, atCommit |-> {},
     already |-> FALSE]

NewAct(route, id, appId, req, pc) ==
    [IdleAct EXCEPT !.pc = pc, !.route = route, !.id = id, !.appId = appId,
                    !.req = req]

Return(act, resp) == [act EXCEPT !.pc = "done", !.resp = resp]
Throw(act, error) == [act EXCEPT !.pc = "threw", !.error = error]

\* The end of a route whose last code is a run of sends: the exception of
\* peer.send, if there was one, else the return value.
Finish(act, o, resp) ==
    IF o.threw THEN Throw(act, "peer.send failed") ELSE Return(act, resp)

At(a, route, pc) == acts[a].route = route /\ acts[a].pc = pc

\* getCoordinator(): the coordinator instance, present on the coordinator only.
coordInst(a) == a[2] = Coord

\* The first pc of a route on a worker shard (no coordinator instance).
shardEntry(route) ==
    CASE route = "channel.subscribers.add" -> "add_ch"
      [] route = "channel.subscribers.remove" -> "rm_ch"
      [] route = "channel.messages.send" -> "send_ch"
      [] route = "global.messages.send" -> "global_peers"
      [] route = "user.messages.send" -> "user_peer"
      [] OTHER -> "invalid"

\* A shard that runs the coordinator's routes as well.
shardActivation_coordinatorRoutes(route, id, appId, req) ==
    NewAct(route, id, appId, req,
           CASE route = "channel.delete" -> "del_ch"
             [] route = "channel.messages.delete" -> "msgdel_delete"
             [] route = "channel.create" -> "create_existing"
             [] route = "user.authenticate" -> "auth_peer"
             [] OTHER -> shardEntry(route))

\* handleSource called where getCoordinator() gives nothing: the routes
\* that need the coordinator return "Invalid connection" before any await,
\* the others run to their first await.
shardActivation(route, id, appId, req) ==
    IF shardEntry(route) = "invalid"
    THEN Return(NewAct(route, id, appId, req, "invalid"),
                Err("Invalid connection"))
    ELSE NewAct(route, id, appId, req, shardEntry(route))

\* coordInst.distribute({id, appId, data}): every registered shard gets the
\* request and runs handleSource on it; the caller awaits all of them.
distribute(a) ==
    [b \in ActIds |->
        IF b = a THEN [acts[a] EXCEPT !.pc = "await", !.spawned = registered]
        ELSE IF b[1] = a[1] /\ b[2] \in registered
        THEN shardActivation(acts[a].route, acts[a].id, acts[a].appId,
                             acts[a].req)
        ELSE acts[b]]

\* The same, after the caller's locals were updated to `act`.
distributeFrom(a, act) ==
    [b \in ActIds |->
        IF b = a THEN [act EXCEPT !.pc = "await", !.spawned = registered]
        ELSE IF b[1] = a[1] /\ b[2] \in registered
        THEN shardActivation(act.route, act.id, act.appId, act.req)
        ELSE acts[b]]

\* What a shard answered: its response, or a failure when its handler threw.
shardResponse(b) ==
    IF acts[b].pc = "threw" THEN Err("Unknown error") ELSE acts[b].resp

\* The source peer's row, as hooks.message reads it before handleSource.
sourceInfo == { p \in peers : p.id = SourceId /\ p.type = "source" }

\* Slots are used in order.
FreeSlot(k) ==
    /\ acts[<<k, Coord>>].pc = "idle"
    /\ \A j \in Slots : j < k => acts[<<j, Coord>>].pc # "idle"

\* ------------------------------------------------ channel.subscribers.add
\* hooks.message on the source's socket: the envelope is valid, handleSource
\* is called and runs to its first await.
RecvSubscribersAdd(k, id, subscriberId, channelId) ==
    /\ FreeSlot(k)
    /\ SourceId \in live
    /\ \E info \in sourceInfo :
        acts' = [acts EXCEPT ![<<k, Coord>>] =
            NewAct("channel.subscribers.add", id, info.appId,
                   [subscriberId |-> subscriberId, channelId |-> channelId],
                   "add_ch")]
    /\ UNCHANGED <<store, live, shardOf, registered, inbox, closing, sinkreq,
                   sinkBudget,
                   opening, broken>>

\* db.query.channels.findFirst(appId, id) with its messages by createdAt.
findChannel(appId, channelId) ==
    { c \in channels : c.appId = appId /\ c.id = channelId }

\* The same relation without the channel: every stored message.
channelMessages_anyChannel(channelId) == storedMessages

\* with: { messages }: the stored messages of the channel found.
channelMessages(channelId) ==
    { m \in storedMessages : m.channelId = channelId }

SubscribersAdd_FindChannel(a) ==
    /\ At(a, "channel.subscribers.add", "add_ch")
    /\ LET found == findChannel(acts[a].appId, acts[a].req.channelId) IN
        IF found = {}
        THEN acts' = [acts EXCEPT ![a] = Return(@, Err("Channel not found"))]
        ELSE \E c \in found :
             \E ms \in OrderedByCreatedAt(channelMessages(c.id)) :
                acts' = [acts EXCEPT ![a] =
                    [@ EXCEPT !.pc = "add_peer", !.ch = {c}, !.messages = ms]]
    /\ UNCHANGED <<store, live, shardOf, registered, inbox, closing, sinkreq,
                   sinkBudget,
                   opening, broken>>

\* The same without the condition on channelId.
findSubscription_anyChannel(appId, peerId, channelId) ==
    { r \in subscriptions : r.appId = appId /\ r.peerId = peerId }

\* db.query.peerChannelSubscriptions.findFirst(appId, peerId, channelId)
findSubscription(appId, peerId, channelId) ==
    { r \in subscriptions :
        r.appId = appId /\ r.peerId = peerId /\ r.channelId = channelId }

\* The lookup without eq(p.appId, appId).
findPeer_anyApp(appId, who) ==
    { p \in peers : p.authenticatedUserId = who \/ p.id = who }

\* db.query.peers.findFirst: appId and (authenticatedUserId or id) match.
findPeer(appId, who) ==
    { p \in peers :
        p.appId = appId /\ (p.authenticatedUserId = who \/ p.id = who) }

\* The authorization check of channel.subscribers.add, as the code has it.
notAuthenticated(ch, dbPeer) ==
    ch.auth = "public" /\ dbPeer.authenticatedUserId = Null

SubscribersAdd_FindPeer(a) ==
    /\ At(a, "channel.subscribers.add", "add_peer")
    /\ LET found == findPeer(acts[a].appId, acts[a].req.subscriberId) IN
        IF found = {}
        THEN acts' = [acts EXCEPT ![a] = Return(@, Err("Peer not found"))]
        ELSE \E p \in found : \E c \in acts[a].ch :
            IF notAuthenticated(c, p)
            THEN acts' = [acts EXCEPT ![a] =
                    [Return(@, Err("Peer not authenticated"))
                        EXCEPT !.dbPeer = {p}]]
            ELSE acts' = [acts EXCEPT ![a] =
                    [@ EXCEPT !.pc = "add_subs", !.dbPeer = {p}]]
    /\ UNCHANGED <<store, live, shardOf, registered, inbox, closing, sinkreq,
                   sinkBudget,
                   opening, broken>>

\* The same without not(eq(peers.id, dbPeer.id)).
otherSubscribers_withSelf(appId, channelId, peerId) ==
    { p \in peers :
        /\ p.appId = appId
        /\ \E r \in subscriptions : r.peerId = p.id /\ r.channelId = channelId }

\* select peer, subscription from subscriptions join peers
\* where peers.appId = appId and channelId = ch.id and peers.id <> dbPeer.id:
\* the peer rows of the result.
otherSubscribers(appId, channelId, peerId) ==
    { p \in peers :
        /\ p.appId = appId
        /\ p.id # peerId
        /\ \E r \in subscriptions : r.peerId = p.id /\ r.channelId = channelId }

\* The frames of a successful subscribe on this site: join-channel to the
\* subscriber, member-join to the existing subscribers, to local sockets only.
subscribeFrames(site, id, ch, messages, dbPeer, existing) ==
    [p \in PeerIds |->
        IF p \notin getPeerMap(site) THEN <<>>
        ELSE (IF p = dbPeer.id
              THEN << joinChannelFrame(id, ch, messages, existing) >>
              ELSE <<>>)
          \o (IF \E r \in existing : r.id = p
              THEN << memberJoinFrame(id, ch, dbPeer) >>
              ELSE <<>>)]

\* The frame to mainPeer, which is sent before the loop, and the others.
toMainPeer(out, dbPeer) ==
    [p \in PeerIds |->
        IF p = dbPeer.id /\ out[p] # <<>> THEN << out[p][1] >> ELSE <<>>]
toTheOthers(out, dbPeer) ==
    [p \in PeerIds |->
        IF p = dbPeer.id /\ out[p] # <<>> THEN Tail(out[p]) ELSE out[p]]

SubscribersAdd_ExistingSubs(a) ==
    /\ At(a, "channel.subscribers.add", "add_subs")
    /\ \E c \in acts[a].ch : \E p \in acts[a].dbPeer :
        LET existing == otherSubscribers(acts[a].appId, c.id, p.id) IN
        IF coordInst(a)
        THEN /\ acts' = [acts EXCEPT ![a] =
                    [@ EXCEPT !.pc = "add_insert", !.existingSubs = existing]]
             /\ UNCHANGED inbox
        ELSE LET out == subscribeFrames(a[2], acts[a].id, c, acts[a].messages,
                                        p, existing) IN
             \E o \in sendOutcomes(toMainPeer(out, p), toTheOthers(out, p)) :
             /\ sendToPeer(o.delivered)
             /\ acts' = [acts EXCEPT ![a] =
                    [Finish(@, o, Ok) EXCEPT !.existingSubs = existing,
                                             !.sent = o.delivered]]
    /\ UNCHANGED <<store, live, shardOf, registered, closing, sinkreq,
                   sinkBudget,
                   opening, broken>>

\* db.insert(peerChannelSubscriptions), then coordInst.distribute. An insert
\* that violates a constraint throws, and handleSource with it.
SubscribersAdd_Insert(a) ==
    /\ At(a, "channel.subscribers.add", "add_insert")
    /\ \E c \in acts[a].ch : \E p \in acts[a].dbPeer :
        LET dup == findSubscription(acts[a].appId, p.id, c.id) # {} IN
        IF /\ pcs_references(acts[a].appId, p.id, c.id)
           /\ pcs_unique(subscriptions, acts[a].appId, p.id, c.id)
        THEN /\ subscriptions' = subscriptions \cup
                    { SubscriptionRow(rowSeq + 1, acts[a].appId, p.id, c.id) }
             /\ rowSeq' = rowSeq + 1
             /\ acts' = distributeFrom(a,
                    [acts[a] EXCEPT !.already = dup, !.inserted = TRUE,
                                    !.atCommit =
                        otherSubscribers(acts[a].appId, c.id, p.id)])
        ELSE /\ acts' = [acts EXCEPT ![a] =
                    [Throw(@, IF pcs_references(acts[a].appId, p.id, c.id)
                              THEN "UNIQUE constraint failed"
                              ELSE "FOREIGN KEY constraint failed")
                        EXCEPT !.already = dup]]
             /\ UNCHANGED <<subscriptions, rowSeq>>
    /\ UNCHANGED <<peers, channels, storedMessages, clock, live, shardOf,
                   registered, inbox, closing, sinkreq, sinkBudget,
                   opening, broken>>

\* The distribute of a route whose shards must all succeed has returned:
\* success = res.every(r => r.response.success).
everyShard(a) == \A s \in acts[a].spawned : shardResponse(<<a[1], s>>).success

\* The conjunction where the code takes the disjunction.
someShard_every(a) ==
    \A s \in acts[a].spawned : shardResponse(<<a[1], s>>).success

someShard(a) == \E s \in acts[a].spawned : shardResponse(<<a[1], s>>).success

AllShardsAnswered(a) ==
    \A s \in acts[a].spawned : acts[<<a[1], s>>].pc \in {"done", "threw"}

SubscribersAdd_Distributed(a) ==
    /\ At(a, "channel.subscribers.add", "await")
    /\ AllShardsAnswered(a)
    /\ acts' = [acts EXCEPT ![a] =
            Return(@, IF everyShard(a) THEN Ok ELSE Err("Invalid request"))]
    /\ UNCHANGED <<store, live, shardOf, registered, inbox, closing, sinkreq,
                   sinkBudget,
                   opening, broken>>

\* --------------------------------------------- channel.subscribers.remove
RecvSubscribersRemove(k, id, subscriberId, channelId) ==
    /\ FreeSlot(k)
    /\ SourceId \in live
    /\ \E info \in sourceInfo :
        acts' = [acts EXCEPT ![<<k, Coord>>] =
            NewAct("channel.subscribers.remove", id, info.appId,
                   [subscriberId |-> subscriberId, channelId |-> channelId],
                   "rm_ch")]
    /\ UNCHANGED <<store, live, shardOf, registered, inbox, closing, sinkreq,
                   sinkBudget,
                   opening, broken>>

SubscribersRemove_FindChannel(a) ==
    /\ At(a, "channel.subscribers.remove", "rm_ch")
    /\ LET found == findChannel(acts[a].appId, acts[a].req.channelId) IN
        IF found = {}
        THEN acts' = [acts EXCEPT ![a] = Return(@, Err("Channel not found"))]
        ELSE \E c \in found :
                acts' = [acts EXCEPT ![a] =
                    [@ EXCEPT !.pc = "rm_peer", !.ch = {c}]]
    /\ UNCHANGED <<store, live, shardOf, registered, inbox, closing, sinkreq,
                   sinkBudget,
                   opening, broken>>

SubscribersRemove_FindPeer(a) ==
    /\ At(a, "channel.subscribers.remove", "rm_peer")
    /\ LET found == findPeer(acts[a].appId, acts[a].req.subscriberId) IN
        IF found = {}
        THEN acts' = [acts EXCEPT ![a] = Return(@, Err("Peer not found"))]
        ELSE \E p \in found :
                acts' = [acts EXCEPT ![a] =
                    [@ EXCEPT !.pc = IF coordInst(a) THEN "rm_isin" ELSE "rm_subs",
                              !.dbPeer = {p}]]
    /\ UNCHANGED <<store, live, shardOf, registered, inbox, closing, sinkreq,
                   sinkBudget,
                   opening, broken>>

SubscribersRemove_IsInChannel(a) ==
    /\ At(a, "channel.subscribers.remove", "rm_isin")
    /\ \E c \in acts[a].ch : \E p \in acts[a].dbPeer :
        LET found == findSubscription(acts[a].appId, p.id, c.id) IN
        IF found = {}
        THEN acts' = [acts EXCEPT ![a] =
                Return(@, Err("Peer is not subscribed to channel"))]
        ELSE \E r \in found :
                acts' = [acts EXCEPT ![a] =
                    [@ EXCEPT !.pc = "rm_delete", !.isInChannel = {r}]]
    /\ UNCHANGED <<store, live, shardOf, registered, inbox, closing, sinkreq,
                   sinkBudget,
                   opening, broken>>

\* db.delete(peerChannelSubscriptions).where(id = isInChannel.id), then
\* coordInst.distribute.
SubscribersRemove_Delete(a) ==
    /\ At(a, "channel.subscribers.remove", "rm_delete")
    /\ \E r \in acts[a].isInChannel :
        subscriptions' = { x \in subscriptions : x.id # r.id }
    /\ acts' = distribute(a)
    /\ UNCHANGED <<peers, channels, storedMessages, clock, rowSeq, live, shardOf,
                   registered, inbox, closing, sinkreq, sinkBudget,
                   opening, broken>>

\* select ... from subscriptions join peers where peers.appId = appId and
\* channelId = ch.id: the peer rows of the remaining subscribers.
channelSubscribers(appId, channelId) ==
    { p \in peers :
        /\ p.appId = appId
        /\ \E r \in subscriptions : r.peerId = p.id /\ r.channelId = channelId }

\* leave-channel to the leaving peer, then member-leave to the remaining
\* subscribers, to local sockets only.
unsubscribeFrames(site, id, ch, dbPeer, remaining) ==
    [p \in PeerIds |->
        IF p \notin getPeerMap(site) THEN <<>>
        ELSE (IF p = dbPeer.id THEN << leaveChannelFrame(id, ch) >> ELSE <<>>)
          \o (IF \E r \in remaining : r.id = p
              THEN << memberLeaveFrame(id, ch, dbPeer) >>
              ELSE <<>>)]

SubscribersRemove_RemainingSubs(a) ==
    /\ At(a, "channel.subscribers.remove", "rm_subs")
    /\ \E c \in acts[a].ch : \E p \in acts[a].dbPeer :
        LET remaining == channelSubscribers(acts[a].appId, c.id)
            out == unsubscribeFrames(a[2], acts[a].id, c, p, remaining) IN
        \E o \in sendOutcomes(toMainPeer(out, p), toTheOthers(out, p)) :
        /\ sendToPeer(o.delivered)
        /\ acts' = [acts EXCEPT ![a] =
                [Finish(@, o, Ok) EXCEPT !.existingSubs = remaining,
                                         !.sent = o.delivered]]
    /\ UNCHANGED <<store, live, shardOf, registered, closing, sinkreq,
                   sinkBudget,
                   opening, broken>>

SubscribersRemove_Distributed(a) ==
    /\ At(a, "channel.subscribers.remove", "await")
    /\ AllShardsAnswered(a)
    /\ acts' = [acts EXCEPT ![a] =
            Return(@, IF everyShard(a) THEN Ok ELSE Err("Invalid request"))]
    /\ UNCHANGED <<store, live, shardOf, registered, inbox, closing, sinkreq,
                   sinkBudget,
                   opening, broken>>

\* -------------------------------------------------------- user.authenticate
RecvAuthenticate(k, id, peerId, userId, userInfo) ==
    /\ FreeSlot(k)
    /\ SourceId \in live
    /\ \E info \in sourceInfo :
        acts' = [acts EXCEPT ![<<k, Coord>>] =
            NewAct("user.authenticate", id, info.appId,
                   [peerId |-> peerId, id |-> userId, userInfo |-> userInfo],
                   "auth_peer")]
    /\ UNCHANGED <<store, live, shardOf, registered, inbox, closing, sinkreq,
                   sinkBudget, opening, broken>>

\* peer = peers.findFirst(appId = appId, id = data.peerId)
Authenticate_FindPeer(a) ==
    /\ At(a, "user.authenticate", "auth_peer")
    /\ LET found == { r \in peers : r.appId = acts[a].appId
                                    /\ r.id = acts[a].req.peerId } IN
        acts' = [acts EXCEPT ![a] =
            IF found = {} THEN Return(@, Err("Peer not found"))
            ELSE [@ EXCEPT !.pc = "auth_update", !.dbPeer = found]]
    /\ UNCHANGED <<store, live, shardOf, registered, inbox, closing, sinkreq,
                   sinkBudget, opening, broken>>

\* db.update(peers).set({userInfo, authenticatedUserId}).where(id = peer.id)
Authenticate_Update(a) ==
    /\ At(a, "user.authenticate", "auth_update")
    /\ \E peer \in acts[a].dbPeer :
        peers' = { IF r.id = peer.id
                   THEN [r EXCEPT !.userInfo = acts[a].req.userInfo,
                                  !.authenticatedUserId = acts[a].req.id]
                   ELSE r : r \in peers }
    /\ acts' = [acts EXCEPT ![a] = Return(@, Ok)]
    /\ UNCHANGED <<channels, subscriptions, storedMessages, clock, rowSeq,
                   live, shardOf, registered, inbox, closing, sinkreq,
                   sinkBudget, opening, broken>>

\* ---------------------------------------------------------- channel.create
\* The table without its unique index on (name, appId).
channel_unique_dropped(name, appId) == TRUE

\* uniqueIndex("channel_unique").on(name, appId): may this row go in?
channel_unique(name, appId) ==
    ~ \E c \in channels : c.name = name /\ c.appId = appId

\* $default(v7): the id of the channel row the k-th request inserts.
v7(k) == <<"n1", "n2", "n3", "n4">>[k]

RecvChannelCreate(k, id, name, authMode, storeMessages) ==
    /\ FreeSlot(k)
    /\ SourceId \in live
    /\ \E info \in sourceInfo :
        acts' = [acts EXCEPT ![<<k, Coord>>] =
            NewAct("channel.create", id, info.appId,
                   [name |-> name, authMode |-> authMode,
                    storeMessages |-> storeMessages], "create_existing")]
    /\ UNCHANGED <<store, live, shardOf, registered, inbox, closing, sinkreq,
                   sinkBudget,
                   opening, broken>>

\* existing = channels.findFirst(appId, name)
ChannelCreate_Existing(a) ==
    /\ At(a, "channel.create", "create_existing")
    /\ LET existing == { c \in channels : c.appId = acts[a].appId
                                          /\ c.name = acts[a].req.name } IN
        acts' = [acts EXCEPT ![a] =
            [@ EXCEPT !.pc = IF existing # {} THEN "create_update"
                             ELSE "create_insert",
                      !.ch = existing]]
    /\ UNCHANGED <<store, live, shardOf, registered, inbox, closing, sinkreq,
                   sinkBudget,
                   opening, broken>>

\* db.update(channels).set({auth, store}).where(id = existing.id).returning()
ChannelCreate_Update(a) ==
    /\ At(a, "channel.create", "create_update")
    /\ \E existing \in acts[a].ch :
        LET updated == { [c EXCEPT !.auth = acts[a].req.authMode,
                                   !.store = acts[a].req.storeMessages] :
                            c \in { x \in channels : x.id = existing.id } } IN
        /\ channels' = { c \in channels : c.id # existing.id } \cup updated
        /\ acts' = [acts EXCEPT ![a] =
                IF updated = {} THEN Return(@, Err("Unknown error"))
                ELSE Return(@, [success |-> TRUE, error |-> "",
                                channelId |-> existing.id])]
    /\ UNCHANGED <<peers, subscriptions, storedMessages, clock, rowSeq, live,
                   shardOf, registered, inbox, closing, sinkreq, sinkBudget,
                   opening, broken>>

\* db.insert(channels).values({appId, name, auth, store}).returning(); an
\* insert that violates the unique index throws.
ChannelCreate_Insert(a) ==
    /\ At(a, "channel.create", "create_insert")
    /\ IF channel_unique(acts[a].req.name, acts[a].appId)
       THEN /\ channels' = channels \cup
                    { ChannelRow(v7(a[1]), acts[a].appId, acts[a].req.name,
                                 acts[a].req.authMode,
                                 acts[a].req.storeMessages) }
            /\ acts' = [acts EXCEPT ![a] =
                    [Return(@, [success |-> TRUE, error |-> "",
                                channelId |-> v7(a[1])])
                        EXCEPT !.inserted = TRUE]]
       ELSE /\ acts' = [acts EXCEPT ![a] =
                    Throw(@, "UNIQUE constraint failed")]
            /\ UNCHANGED channels
    /\ UNCHANGED <<peers, subscriptions, storedMessages, clock, rowSeq, live,
                   shardOf, registered, inbox, closing, sinkreq, sinkBudget,
                   opening, broken>>

\* ---------------------------------------------------------- channel.delete
RecvChannelDelete(k, id, channelId) ==
    /\ FreeSlot(k)
    /\ SourceId \in live
    /\ \E info \in sourceInfo :
        acts' = [acts EXCEPT ![<<k, Coord>>] =
            NewAct("channel.delete", id, info.appId,
                   [channelId |-> channelId], "del_ch")]
    /\ UNCHANGED <<store, live, shardOf, registered, inbox, closing, sinkreq,
                   sinkBudget,
                   opening, broken>>

ChannelDelete_FindChannel(a) ==
    /\ At(a, "channel.delete", "del_ch")
    /\ acts' = [acts EXCEPT ![a] =
            IF findChannel(acts[a].appId, acts[a].req.channelId) = {}
            THEN Return(@, Err("Channel not found"))
            ELSE [@ EXCEPT !.pc = "del_delete"]]
    /\ UNCHANGED <<store, live, shardOf, registered, inbox, closing, sinkreq,
                   sinkBudget,
                   opening, broken>>

\* db.delete(channels).where(id = channelId and appId = appId), cascading.
ChannelDelete_Delete(a) ==
    /\ At(a, "channel.delete", "del_delete")
    /\ LET gone == { c.id : c \in findChannel(acts[a].appId,
                                              acts[a].req.channelId) } IN
        /\ channels' = { c \in channels : c.id \notin gone }
        /\ subscriptions' = { r \in subscriptions : r.channelId \notin gone }
        /\ storedMessages' = { m \in storedMessages : m.channelId \notin gone }
    /\ acts' = [acts EXCEPT ![a] = Return(@, Ok)]
    /\ UNCHANGED <<peers, clock, rowSeq, live, shardOf, registered, inbox,
                   closing, sinkreq, sinkBudget,
                   opening, broken>>

\* ------------------------------------------------- channel.messages.delete
RecvMessagesDelete(k, id, request) ==
    /\ FreeSlot(k)
    /\ SourceId \in live
    /\ \E info \in sourceInfo :
        acts' = [acts EXCEPT ![<<k, Coord>>] =
            NewAct("channel.messages.delete", id, info.appId, request,
                   "msgdel_delete")]
    /\ UNCHANGED <<store, live, shardOf, registered, inbox, closing, sinkreq,
                   sinkBudget,
                   opening, broken>>

\* The where clauses without eq(storedChannelMessages.appId, appId).
deletedMessages_anyApp(appId, request) ==
    { m \in storedMessages :
        /\ m.channelId = request.channelId
        /\ (HasField(request, "messageIds") /\ request.messageIds # {})
            => m.id \in request.messageIds }

\* The rows the delete removes: with data.messageIds?.length those of the
\* channel and app whose id is in the array, otherwise all those of the
\* channel and app.
deletedMessages(appId, request) ==
    IF HasField(request, "messageIds") /\ Cardinality(request.messageIds) > 0
    THEN { m \in storedMessages :
            /\ m.channelId = request.channelId
            /\ m.appId = appId
            /\ m.id \in request.messageIds }
    ELSE { m \in storedMessages :
            m.channelId = request.channelId /\ m.appId = appId }

MessagesDelete_Delete(a) ==
    /\ At(a, "channel.messages.delete", "msgdel_delete")
    /\ storedMessages' =
            storedMessages \ deletedMessages(acts[a].appId, acts[a].req)
    /\ acts' = [acts EXCEPT ![a] = Return(@, Ok)]
    /\ UNCHANGED <<peers, channels, subscriptions, clock, rowSeq, live,
                   shardOf, registered, inbox, closing, sinkreq, sinkBudget,
                   opening, broken>>

\* --------------------------------------------------- channel.messages.send
\* On the coordinator the route distributes before any await.
RecvMessagesSend(k, id, channelId, event, message) ==
    /\ FreeSlot(k)
    /\ SourceId \in live
    /\ \E info \in sourceInfo :
        acts' = distributeFrom(<<k, Coord>>,
            NewAct("channel.messages.send", id, info.appId,
                   [channelId |-> channelId, event |-> event,
                    message |-> message], "await"))
    /\ UNCHANGED <<store, live, shardOf, registered, inbox, closing, sinkreq,
                   sinkBudget,
                   opening, broken>>

MessagesSend_FindChannel(a) ==
    /\ At(a, "channel.messages.send", "send_ch")
    /\ LET found == findChannel(acts[a].appId, acts[a].req.channelId) IN
        IF found = {}
        THEN acts' = [acts EXCEPT ![a] = Return(@, Err("Channel not found"))]
        ELSE \E c \in found :
                acts' = [acts EXCEPT ![a] =
                    [@ EXCEPT !.pc = "send_subs", !.ch = {c}]]
    /\ UNCHANGED <<store, live, shardOf, registered, inbox, closing, sinkreq,
                   sinkBudget,
                   opening, broken>>

\* db.query.peerChannelSubscriptions.findMany(appId, channelId)
channelSubscriptions(appId, channelId) ==
    { r \in subscriptions : r.appId = appId /\ r.channelId = channelId }

\* The same from the subscriptions in the table now, not from those read.
channelSendFrames_reread(site, id, ch, req, subs) ==
    [p \in PeerIds |->
        IF p \in getPeerMap(site)
            /\ \E r \in channelSubscriptions(ch.appId, ch.id) : r.peerId = p
        THEN << channelMessageFrame(id, ch.id, req.event, req.message) >>
        ELSE <<>>]

\* One message frame to each subscription's peer that has a local socket.
channelSendFrames(site, id, ch, req, subs) ==
    [p \in PeerIds |->
        IF p \in getPeerMap(site) /\ \E r \in subs : r.peerId = p
        THEN << channelMessageFrame(id, ch.id, req.event, req.message) >>
        ELSE <<>>]

MessagesSend_Subscriptions(a) ==
    /\ At(a, "channel.messages.send", "send_subs")
    /\ \E c \in acts[a].ch :
        LET subs == channelSubscriptions(acts[a].appId, acts[a].req.channelId) IN
        IF c.store
        THEN /\ acts' = [acts EXCEPT ![a] =
                    [@ EXCEPT !.pc = "send_insert", !.subscriptions = subs]]
             /\ UNCHANGED inbox
        ELSE LET out == channelSendFrames(a[2], acts[a].id, c, acts[a].req,
                                          subs) IN
             \E o \in sendOutcomes(NoFrames, out) :
             /\ sendToPeer(o.delivered)
             /\ acts' = [acts EXCEPT ![a] =
                    [Finish(@, o, Ok) EXCEPT !.subscriptions = subs,
                                             !.sent = o.delivered]]
    /\ UNCHANGED <<store, live, shardOf, registered, closing, sinkreq,
                   sinkBudget,
                   opening, broken>>

\* The values CURRENT_TIMESTAMP can take at the next insert.
Timestamps == { t \in clock..(clock + 1) : t <= MaxClock }

\* db.insert(storedChannelMessages).values({id, appId, channelId, data}); the
\* frames are pushed to the subscribers read before the insert.
MessagesSend_Insert(a) ==
    /\ At(a, "channel.messages.send", "send_insert")
    /\ \E c \in acts[a].ch :
        IF scm_insertable(acts[a].id, acts[a].appId, c.id)
        THEN \E t \in Timestamps :
             LET out == channelSendFrames(a[2], acts[a].id, c, acts[a].req,
                                          acts[a].subscriptions) IN
             \E o \in sendOutcomes(NoFrames, out) :
             /\ storedMessages' = storedMessages \cup
                    { MessageRow(acts[a].id, acts[a].appId, c.id, t,
                                 JSON_stringify(acts[a].req)) }
             /\ clock' = t
             /\ sendToPeer(o.delivered)
             /\ acts' = [acts EXCEPT ![a] =
                    [Finish(@, o, Ok) EXCEPT !.sent = o.delivered,
                                             !.inserted = TRUE]]
        ELSE /\ acts' = [acts EXCEPT ![a] = Throw(@, "constraint failed")]
             /\ UNCHANGED <<storedMessages, clock, inbox>>
    /\ UNCHANGED <<peers, channels, subscriptions, rowSeq, live, shardOf,
                   registered, closing, sinkreq, sinkBudget,
                   opening, broken>>

MessagesSend_Distributed(a) ==
    /\ At(a, "channel.messages.send", "await")
    /\ AllShardsAnswered(a)
    /\ acts' = [acts EXCEPT ![a] =
            Return(@, IF everyShard(a) THEN Ok ELSE Err("Invalid request"))]
    /\ UNCHANGED <<store, live, shardOf, registered, inbox, closing, sinkreq,
                   sinkBudget,
                   opening, broken>>

\* ---------------------------------------------------- global.messages.send
\* On the coordinator the route distributes before any await.
RecvGlobalSend(k, id, event, message) ==
    /\ FreeSlot(k)
    /\ SourceId \in live
    /\ \E info \in sourceInfo :
        acts' = distributeFrom(<<k, Coord>>,
            NewAct("global.messages.send", id, info.appId,
                   [event |-> event, message |-> message], "await"))
    /\ UNCHANGED <<store, live, shardOf, registered, inbox, closing, sinkreq,
                   sinkBudget,
                   opening, broken>>

\* The inverted filter: the ids of the peers of every other app.
peerIdSet_otherApps(appId) == { p.id : p \in { r \in peers : r.appId # appId } }

\* dbPeers = peers.findMany(appId = appId); peerIdSet = their ids.
peerIdSet(appId) == { p.id : p \in { r \in peers : r.appId = appId } }

\* peers.forEach: one broadcast frame to each local socket whose id is in
\* peerIdSet. getPeers() hands out the live set of the durable object, so the
\* loop sees the sockets open when it runs.
broadcastFrames(site, id, req, ids) ==
    [p \in PeerIds |->
        IF p \in getPeerMap(site) /\ p \in ids
        THEN << broadcastFrame(id, req.event, req.message) >>
        ELSE <<>>]

GlobalSend_DbPeers(a) ==
    /\ At(a, "global.messages.send", "global_peers")
    /\ LET out == broadcastFrames(a[2], acts[a].id, acts[a].req,
                                  peerIdSet(acts[a].appId)) IN
        \E o \in sendOutcomes(NoFrames, out) :
        /\ sendToPeer(o.delivered)
        /\ acts' = [acts EXCEPT ![a] =
                [Finish(@, o, Ok) EXCEPT !.sent = o.delivered]]
    /\ UNCHANGED <<store, live, shardOf, registered, closing, sinkreq,
                   sinkBudget,
                   opening, broken>>

GlobalSend_Distributed(a) ==
    /\ At(a, "global.messages.send", "await")
    /\ AllShardsAnswered(a)
    /\ acts' = [acts EXCEPT ![a] =
            Return(@, IF everyShard(a) THEN Ok ELSE Err("Invalid request"))]
    /\ UNCHANGED <<store, live, shardOf, registered, inbox, closing, sinkreq,
                   sinkBudget,
                   opening, broken>>

\* ------------------------------------------------------ user.messages.send
\* On the coordinator the route distributes before any await.
RecvUserSend(k, id, recipientId, event, message) ==
    /\ FreeSlot(k)
    /\ SourceId \in live
    /\ \E info \in sourceInfo :
        acts' = distributeFrom(<<k, Coord>>,
            NewAct("user.messages.send", id, info.appId,
                   [recipientId |-> recipientId, event |-> event,
                    message |-> message], "await"))
    /\ UNCHANGED <<store, live, shardOf, registered, inbox, closing, sinkreq,
                   sinkBudget,
                   opening, broken>>

\* dbPeer = peers.findFirst(appId, authenticatedUserId or id = recipientId);
\* the frame goes to its local socket, if it has one.
UserSend_FindPeer(a) ==
    /\ At(a, "user.messages.send", "user_peer")
    /\ LET found == findPeer(acts[a].appId, acts[a].req.recipientId) IN
        IF found = {}
        THEN /\ acts' = [acts EXCEPT ![a] = Return(@, Err("Peer not found"))]
             /\ UNCHANGED inbox
        ELSE \E dbPeer \in found :
            IF dbPeer.id \notin getPeerMap(a[2])
            THEN /\ acts' = [acts EXCEPT ![a] =
                        [Return(@, Err("Peer not found"))
                            EXCEPT !.dbPeer = {dbPeer}]]
                 /\ UNCHANGED inbox
            ELSE LET out == [p \in PeerIds |->
                                IF p = dbPeer.id
                                THEN << directFrame(acts[a].id, acts[a].req.event,
                                                    acts[a].req.message) >>
                                ELSE <<>>] IN
                 \E o \in sendOutcomes(out, NoFrames) :
                 /\ sendToPeer(o.delivered)
                 /\ acts' = [acts EXCEPT ![a] =
                        [Finish(@, o, Ok) EXCEPT !.dbPeer = {dbPeer},
                                                 !.sent = o.delivered]]
    /\ UNCHANGED <<store, live, shardOf, registered, closing, sinkreq,
                   sinkBudget,
                   opening, broken>>

\* res.some((r) => r.response.success), else "Peer not found".
UserSend_Distributed(a) ==
    /\ At(a, "user.messages.send", "await")
    /\ AllShardsAnswered(a)
    /\ acts' = [acts EXCEPT ![a] =
            Return(@, IF someShard(a) THEN Ok ELSE Err("Peer not found"))]
    /\ UNCHANGED <<store, live, shardOf, registered, inbox, closing, sinkreq,
                   sinkBudget,
                   opening, broken>>

\* ------------------------------------------------------------- hooks.close
\* An activation of hooks.close: pc, the rows it read, and (history) the
\* frames it sent.
IdleClose ==
    [pc |-> "idle", connectedChannels |-> {}, peerInfo |-> {},
     sent |-> NoFrames]

\* The socket of p closes: p leaves its site's peers and hooks.close starts.
SocketClose(p) ==
    /\ p \in live
    /\ closing[p].pc = "idle"
    /\ live' = live \ {p}
    /\ closing' = [closing EXCEPT ![p].pc = "subs"]
    /\ UNCHANGED <<store, shardOf, registered, inbox, acts, sinkreq, sinkBudget,
                   opening, broken>>

\* connectedChannels = peerChannelSubscriptions.findMany(peerId = peer.id)
Close_ConnectedChannels(p) ==
    /\ closing[p].pc = "subs"
    /\ closing' = [closing EXCEPT ![p] =
            [@ EXCEPT !.pc = "peer",
                      !.connectedChannels =
                          { r \in subscriptions : r.peerId = p }]]
    /\ UNCHANGED <<store, live, shardOf, registered, inbox, acts, sinkreq,
                   sinkBudget,
                   opening, broken>>

\* peerInfo = peers.findFirst(id = peer.id)
Close_PeerInfo(p) ==
    /\ closing[p].pc = "peer"
    /\ closing' = [closing EXCEPT ![p] =
            [@ EXCEPT !.pc = "delete",
                      !.peerInfo = { r \in peers : r.id = p }]]
    /\ UNCHANGED <<store, live, shardOf, registered, inbox, acts, sinkreq,
                   sinkBudget,
                   opening, broken>>

\* db.delete(peers).where(id = peer.id); the subscriptions cascade.
Close_DeletePeer(p) ==
    /\ closing[p].pc = "delete"
    /\ peers' = { r \in peers : r.id # p }
    /\ subscriptions' = subscriptionsAfterPeerDelete(p)
    /\ closing' = [closing EXCEPT ![p].pc = "notify"]
    /\ UNCHANGED <<channels, storedMessages, clock, rowSeq, live, shardOf,
                   registered, inbox, acts, sinkreq, sinkBudget,
                   opening, broken>>

\* The member-leave frame hooks.close builds for one row of channelPeers.
closeFrame(subscription, channel, peerInfo) ==
    [source |-> "metadata", id |-> "v7", event |-> "member-leave",
     channelId |-> subscription.channelId,
     member |->
        [id |-> subscription.peerId,
         userInfo |-> IF channel.auth = "presence" /\ peerInfo # {}
                      THEN (CHOOSE r \in peerInfo : TRUE).userInfo
                      ELSE Undefined]]

\* channelPeers = the subscriptions (with their channel) of the channels in
\* connectedChannels; one member-leave per row whose peer has a local socket.
\* The rows come in no defined order.
closeFramesFor(p, q) ==
    IF q \notin getPeerMap(shardOf[p]) THEN {}
    ELSE { closeFrame(r, c, closing[p].peerInfo) :
            <<r, c>> \in
                { <<r, c>> \in subscriptions \X channels :
                    /\ r.peerId = q
                    /\ c.id = r.channelId
                    /\ \E cc \in closing[p].connectedChannels :
                            cc.channelId = r.channelId } }

Close_Notify(p) ==
    /\ closing[p].pc = "notify"
    /\ \E out \in { f \in [PeerIds ->
                            UNION { Orderings(closeFramesFor(p, q)) : q \in PeerIds }] :
                        \A q \in PeerIds : f[q] \in Orderings(closeFramesFor(p, q)) } :
       \E o \in sendOutcomes(NoFrames, out) :
        /\ sendToPeer(o.delivered)
        /\ closing' = [closing EXCEPT ![p] =
                [@ EXCEPT !.pc = "done", !.sent = o.delivered]]
    /\ UNCHANGED <<store, live, shardOf, registered, acts, sinkreq, sinkBudget,
                   opening, broken>>

\* -------------------------------------------------------------- hooks.open
\* An activation of hooks.open: pc, the appId of the path, the key of the
\* query (Null when neither sinkrKey nor appKey is there), the type it
\* chose, and the code it closed the socket with (0: it did not).
IdleOpen == [pc |-> "idle", appId |-> "", appKey |-> Null, type |-> "",
             closed |-> 0]

\* The values of url.searchParams.get("sinkrKey") ?? get("appKey").
AppKeys == {Null, "", "kA", "bad"}

\* hooks.upgrade: the app of the path exists and is enabled, else 404.
upgrade(appId) == \E a \in apps : a.id = appId /\ a.enabled

\* A socket for p is accepted (the upgrade hook let it through) and
\* hooks.open starts; it runs to its first await.
SocketOpen(p, appId, appKey) ==
    /\ p \notin live
    /\ opening[p].pc = "idle" /\ closing[p].pc = "idle"
    /\ ~ \E r \in peers : r.id = p
    /\ upgrade(appId)
    /\ live' = live \cup {p}
    /\ opening' = [opening EXCEPT ![p] =
            [IdleOpen EXCEPT !.pc = "app", !.appId = appId, !.appKey = appKey]]
    /\ UNCHANGED <<store, shardOf, registered, inbox, acts, closing, sinkreq,
                   sinkBudget, broken>>

\* The key check that lets every key through.
keyRejected_never(appKey, app) == FALSE

\* appKey && appKey !== app?.secretKey
keyRejected(appKey, app) ==
    /\ appKey # Null /\ appKey # ""
    /\ \A a \in app : appKey # a.secretKey

\* peer.close(4000, ..) from hooks.open: an open socket closes, and its
\* close hook starts.
peerClose(p) ==
    IF p \in live /\ closing[p].pc = "idle"
    THEN /\ live' = live \ {p}
         /\ closing' = [closing EXCEPT ![p].pc = "subs"]
    ELSE UNCHANGED <<live, closing>>

\* app = apps.findFirst(id = appId, enabled); a key that is not the app's
\* closes the socket, otherwise the type is chosen.
Open_FindApp(p) ==
    /\ opening[p].pc = "app"
    /\ LET app == { a \in apps : a.id = opening[p].appId /\ a.enabled }
           appKey == opening[p].appKey IN
        IF keyRejected(appKey, app)
        THEN /\ peerClose(p)
             /\ opening' = [opening EXCEPT ![p] =
                    [@ EXCEPT !.pc = "done", !.closed = 4000]]
        ELSE /\ opening' = [opening EXCEPT ![p] =
                    [@ EXCEPT !.pc = "insert",
                              !.type = IF appKey # Null /\ appKey # ""
                                       THEN "source" ELSE "sink"]]
             /\ UNCHANGED <<live, closing>>
    /\ UNCHANGED <<store, shardOf, registered, inbox, acts, sinkreq,
                   sinkBudget, broken>>

\* await db.insert(peers).values({id, appId, type}): the store commits the
\* row and the handler is suspended until the answer has come back; an
\* insert the store refuses is caught and closes the socket.
Open_Insert(p) ==
    /\ opening[p].pc = "insert"
    /\ IF /\ ~ \E r \in peers : r.id = p
          /\ \E a \in apps : a.id = opening[p].appId
       THEN /\ peers' = peers \cup
                    { PeerRow(p, opening[p].appId, opening[p].type, Null, Null) }
            /\ opening' = [opening EXCEPT ![p].pc = "init"]
            /\ UNCHANGED <<live, closing>>
       ELSE /\ peerClose(p)
            /\ opening' = [opening EXCEPT ![p] =
                    [@ EXCEPT !.pc = "done", !.closed = 4000]]
            /\ UNCHANGED peers
    /\ UNCHANGED <<channels, subscriptions, storedMessages, inbox, clock,
                   rowSeq, shardOf, registered, acts, sinkreq, sinkBudget,
                   broken>>

\* The handler resumes after the insert and sends the init frame; a send
\* that throws is caught and closes the socket. A frame sent to a socket
\* that has closed reaches nobody.
Open_Init(p) ==
    /\ opening[p].pc = "init"
    /\ IF p \in broken
       THEN /\ peerClose(p)
            /\ opening' = [opening EXCEPT ![p] =
                    [@ EXCEPT !.pc = "done", !.closed = 4000]]
            /\ UNCHANGED inbox
       ELSE /\ inbox' = IF p \in live
                        THEN [inbox EXCEPT ![p] = Append(@,
                                [source |-> "metadata", id |-> "v7",
                                 event |-> "init", peerId |-> p])]
                        ELSE inbox
            /\ opening' = [opening EXCEPT ![p].pc = "done"]
            /\ UNCHANGED <<live, closing>>
    /\ UNCHANGED <<peers, channels, subscriptions, storedMessages, clock,
                   rowSeq, shardOf, registered, acts, sinkreq, sinkBudget,
                   broken>>

\* ------------------------------------------------- the client of a sink
\* PresenceSinker._members after the frames `frames` for the channel: the
\* members of join-channel replace the list (given here in any one order),
\* member-join pushes its member, member-leave filters out the entries with
\* its member's id. The list holds the ids.
RECURSIVE PresenceSinker_members(_, _, _)
PresenceSinker_members(members, frames, channel) ==
    IF frames = <<>> THEN members
    ELSE LET f == Head(frames)
             next ==
                IF f.source # "metadata" \/ f.event = "init" THEN members
                ELSE IF f.channelId # channel THEN members
                ELSE IF f.event = "join-channel"
                THEN CHOOSE q \in Orderings({ x.id : x \in f.members }) : TRUE
                ELSE IF f.event = "member-join"
                THEN Append(members, f.member.id)
                ELSE IF f.event = "member-leave"
                THEN SelectSeq(members, LAMBDA x : x # f.member.id)
                ELSE members
         IN PresenceSinker_members(next, Tail(frames), channel)

\* ------------------------------------- hooks.message on a sink's connection
IdleSinkReq ==
    [pc |-> "idle", channelId |-> "", messageIds |-> {}, peerInfo |-> {},
     sent |-> <<>>]

\* A request-stored-messages frame arrives from p; peerInfo is read.
SinkRequestStoredMessages(p, channelId, messageIds) ==
    /\ p \in live
    /\ sinkBudget > 0
    /\ sinkreq[p].pc \in {"idle", "done"}
    /\ sinkBudget' = sinkBudget - 1
    /\ UNCHANGED <<opening, broken>>
    /\ LET info == { r \in peers : r.id = p } IN
        sinkreq' = [sinkreq EXCEPT ![p] =
            [pc |-> IF \E r \in info : r.type = "sink" THEN "query" ELSE "done",
             channelId |-> channelId, messageIds |-> messageIds,
             peerInfo |-> info, sent |-> <<>>]]
    /\ UNCHANGED <<store, live, shardOf, registered, inbox, acts, closing>>

\* storedChannelMessages.findMany(channelId, appId = peerInfo.appId,
\* id in messageIds) ordered by createdAt
requestedMessages(channelId, appId, messageIds) ==
    { m \in storedMessages :
        m.channelId = channelId /\ m.appId = appId /\ m.id \in messageIds }

storedMessageFrame(m) ==
    LET data == JSON_parse(m.data) IN
    [source |-> "message", id |-> m.id, event |-> data.event,
     from |-> [source |-> "channel", channelId |-> data.channelId],
     message |-> data.message]

Sink_SendStoredMessages(p) ==
    /\ sinkreq[p].pc = "query"
    /\ \E info \in sinkreq[p].peerInfo :
       \E ms \in OrderedByCreatedAt(
                    requestedMessages(sinkreq[p].channelId, info.appId,
                                      sinkreq[p].messageIds)) :
        LET frames == [i \in 1..Len(ms) |-> storedMessageFrame(ms[i])]
            out == [q \in PeerIds |-> IF q = p /\ p \in live THEN frames ELSE <<>>]
        IN \E o \in sendOutcomes(out, NoFrames) :
           /\ sendToPeer(o.delivered)
           /\ sinkreq' = [sinkreq EXCEPT ![p] =
                    [@ EXCEPT !.pc = "done", !.sent = o.delivered[p]]]
    /\ UNCHANGED <<store, live, shardOf, registered, acts, closing, sinkBudget,
                   opening, broken>>

\* ------------------------------------------ hooks.message, any frame at all
\* A websocket frame: its text, and the value JSON.parse gives for it (none
\* when the text is not JSON).
TextFrame(text) == [text |-> text, isJson |-> FALSE, json |-> <<>>]
JsonFrame(value) == [text |-> "", isJson |-> TRUE, json |-> value]

\* A parse that makes every message a plain one.
MessageTypeSchema_parse_plain(raw) == [type |-> "plain", message |-> raw.message]

\* MessageTypeSchema: the output of the parse for a plain message and for
\* a chunk; a z.object keeps the members of its shape and drops the others.
MessageTypeSchema_parse(raw) ==
    [k \in (IF raw.type = "plain" THEN {"type", "message"}
                                 ELSE {"type", "index", "message"})
            \cap DOMAIN raw |-> raw[k]]

\* ServerRequestSchema.safeParse(body.data): a route of ALL_ROUTES with a
\* request object.
ServerRoutes ==
    { "user.authenticate", "channel.create", "channel.delete",
      "channel.messages.delete", "global.messages.send",
      "channel.messages.send", "user.messages.send",
      "channel.subscribers.add", "channel.subscribers.remove" }


ServerRequestSchema_safeParse(body) ==
    /\ HasField(body, "data")
    /\ HasField(body.data, "route") /\ HasField(body.data, "request")
    /\ body.data.route \in ServerRoutes

\* ClientRequestStoredMessagesSchema.safeParse(body): an object with event
\* "request-stored-messages" that names a channel and a list of message ids.
ClientRequestStoredMessagesSchema_safeParse(body) ==
    /\ HasField(body, "event") /\ body.event = "request-stored-messages"
    /\ HasField(body, "channelId") /\ HasField(body, "messageIds")

\* peerInfo?.type, with every peer taken for a source.
peerType_source(peerInfo) == "source"

\* peerInfo?.type
peerType(peerInfo) ==
    IF peerInfo = {} THEN Undefined ELSE (CHOOSE r \in peerInfo : TRUE).type

\* The way hooks.message takes for a frame, given the peer row it read.
messageBranch(frame, peerInfo) ==
    IF frame.text = "ping" THEN "pong"
    ELSE IF peerType(peerInfo) = "sink"
    THEN IF ~ frame.isJson THEN "threw"
         ELSE IF ClientRequestStoredMessagesSchema_safeParse(frame.json)
         THEN "stored" ELSE "ignored"
    ELSE IF peerType(peerInfo) # "source" THEN "ignored"
    ELSE IF ~ frame.isJson THEN "threw"
    ELSE IF ServerRequestSchema_safeParse(frame.json) THEN "source"
    ELSE "status400"

FieldOr(value, f, default) == IF HasField(value, f) THEN value[f] ELSE default

\* hooks.message for a frame that arrives on the socket of p: the answer to
\* ping, else the read of peerInfo and the code up to the next await. A call
\* of handleSource runs on the durable object that holds the socket.
HookMessage(p, frame) ==
    /\ p \in live
    /\ sinkBudget > 0
    /\ sinkreq[p].pc \in {"idle", "done"}
    /\ sinkBudget' = sinkBudget - 1
    /\ UNCHANGED <<opening, broken>>
    /\ LET info == { r \in peers : r.id = p }
           branch == messageBranch(frame, info)
           rec(pc, sent) ==
                [pc |-> pc, channelId |-> FieldOr(frame.json, "channelId", Undefined),
                 messageIds |-> FieldOr(frame.json, "messageIds", {}),
                 peerInfo |-> info, sent |-> sent, frame |-> frame,
                 branch |-> branch]
       IN
       CASE branch = "pong" ->
              /\ inbox' = [inbox EXCEPT ![p] =
                        IF p \in broken THEN @
                        ELSE Append(@, [source |-> "pong"])]
              /\ sinkreq' = [sinkreq EXCEPT ![p] = rec("done", <<>>)]
              /\ UNCHANGED acts
         [] branch = "stored" ->
              /\ sinkreq' = [sinkreq EXCEPT ![p] = rec("query", <<>>)]
              /\ UNCHANGED <<inbox, acts>>
         [] branch = "status400" ->
              /\ inbox' = [inbox EXCEPT ![p] =
                        IF p \in broken THEN @
                        ELSE Append(@, [source |-> "status", status |-> 400])]
              /\ sinkreq' = [sinkreq EXCEPT ![p] = rec("done", <<>>)]
              /\ UNCHANGED acts
         [] branch = "source" ->
              /\ \E k \in Slots : \E r \in info :
                    /\ FreeSlot(k)
                    /\ acts' = [acts EXCEPT
                            ![<<k, Coord>>] = [IdleAct EXCEPT !.pc = "elsewhere"],
                            ![<<k, shardOf[p]>>] =
                                shardActivation(frame.json.data.route,
                                    FieldOr(frame.json, "id", Undefined),
                                    r.appId, frame.json.data.request)]
              /\ sinkreq' = [sinkreq EXCEPT ![p] = rec("done", <<>>)]
              /\ UNCHANGED inbox
         [] OTHER ->
              /\ sinkreq' = [sinkreq EXCEPT ![p] = rec("done", <<>>)]
              /\ UNCHANGED <<inbox, acts>>
    /\ UNCHANGED <<store, live, shardOf, registered, closing>>

\* Frames a sink may send that are neither ping nor a request for stored
\* messages: text that is not JSON, JSON of another shape, and well-formed
\* source envelopes.
OtherSinkFrames ==
    { TextFrame("hello"),
      JsonFrame([channelId |-> "c1", messageIds |-> {"m1"}]),
      JsonFrame([id |-> "e9",
                 data |-> [route |-> "global.messages.send",
                           request |-> [event |-> "ev", message |-> "hello"]]]),
      JsonFrame([id |-> "e9",
                 data |-> [route |-> "channel.subscribers.add",
                           request |-> [subscriberId |-> "p1",
                                        channelId |-> "c1"]]]) }

\* ------------------------------ hooks.message on the source's connection
\* The id the source gives the envelope it sends k-th.
EnvelopeId(k) == <<"e1", "e2", "e3", "e4">>[k]

\* An envelope whose data fails ServerRequestSchema.safeParse arrives from
\* the source: peer.send({status: 400, id, error}) and return.
RecvInvalidEnvelope(k, body) ==
    /\ FreeSlot(k)
    /\ SourceId \in live
    /\ sourceInfo # {}
    /\ ~ ServerRequestSchema_safeParse(body)
    /\ inbox' = [inbox EXCEPT ![SourceId] =
            IF SourceId \in broken THEN @
            ELSE Append(@, [status |-> 400, id |-> body.id,
                            error |-> "ZodError"])]
    /\ acts' = [acts EXCEPT ![<<k, Coord>>] =
            [IdleAct EXCEPT !.pc = "replied", !.id = body.id]]
    /\ UNCHANGED <<store, live, shardOf, registered, closing, sinkreq,
                   sinkBudget, opening, broken>>

\* handleSource has returned res to hooks.message:
\* peer.send({id: body.id, route, response: res}). Nothing catches an
\* exception of handleSource, so an activation that threw sends nothing.
Reply(a) ==
    /\ coordInst(a)
    /\ acts[a].pc = "done"
    /\ inbox' = [inbox EXCEPT ![SourceId] =
            IF SourceId \in live /\ SourceId \notin broken
            THEN Append(@, [id |-> acts[a].id, route |-> acts[a].route,
                            response |-> acts[a].resp])
            ELSE @]
    /\ acts' = [acts EXCEPT ![a].pc = "replied"]
    /\ UNCHANGED <<store, live, shardOf, registered, closing, sinkreq,
                   sinkBudget, opening, broken>>

\* ------------------------------------------- fetch, the HTTP source endpoint
\* The HTTP requests: the appId of the path, the method, the words of the
\* Authorization header (the field is missing when the header is), and the
\* JSON body.
FetchRequests ==
    LET bodies == { [route |-> "broadcast", event |-> "ev", message |-> "hello"],
                    [route |-> "nope"] }
        paths == {"A", "D", "zz", ""}
        methods == {"POST", "GET"}
    IN { [appId |-> x, method |-> mth, body |-> b] :
            x \in paths, mth \in methods, b \in bodies } \cup
       { [appId |-> x, method |-> mth, body |-> b, authorization |-> h] :
            x \in paths, mth \in methods, b \in bodies,
            h \in { <<"Bearer", "kA">>, <<"Bearer", "bad">>, <<"Bearer">>,
                    <<"Basic", "kA">> } }

\* ServerEndpointSchema.safeParse(body): a route of the union, with its fields.
ServerEndpointSchema_safeParse(body) ==
    /\ HasField(body, "route") /\ body.route = "broadcast"
    /\ HasField(body, "event") /\ HasField(body, "message")

\* The checks of fetch with those on the Authorization header left out.
fetchStatus_noAuth(request) ==
    LET app == { a \in apps : a.id = request.appId /\ a.enabled } IN
    IF request.appId = "" \/ app = {} THEN 404
    ELSE IF request.method # "POST" THEN 405
    ELSE IF ~ ServerEndpointSchema_safeParse(request.body) THEN 400
    ELSE 200

\* The checks of fetch in their order: the status it answers with, 200
\* standing for the call of handleSource.
fetchStatus(request) ==
    LET app == { a \in apps : a.id = request.appId /\ a.enabled } IN
    IF request.appId = "" \/ app = {} THEN 404
    ELSE IF ~ HasField(request, "authorization") THEN 401
    ELSE IF Len(request.authorization) < 2
            \/ request.authorization[1] # "Bearer" THEN 401
    ELSE IF \A a \in app : request.authorization[2] # a.secretKey THEN 401
    ELSE IF request.method # "POST" THEN 405
    ELSE IF ~ ServerEndpointSchema_safeParse(request.body) THEN 400
    ELSE 200

\* fetch on the coordinator for a request that is not an upgrade: a
\* rejected request is answered at once, an accepted one calls handleSource,
\* here for the route broadcast.
Fetch(k, request) ==
    /\ FreeSlot(k)
    /\ acts' =
        IF fetchStatus(request) = 200
        THEN distributeFrom(<<k, Coord>>,
                NewAct("global.messages.send", "http", request.appId,
                       [event |-> request.body.event,
                        message |-> request.body.message], "await"))
        ELSE [acts EXCEPT ![<<k, Coord>>] =
                [IdleAct EXCEPT !.pc = "rejected", !.req = request,
                                !.resp = [success |-> FALSE, error |-> "",
                                          status |-> fetchStatus(request)]]]
    /\ UNCHANGED <<store, live, shardOf, registered, inbox, closing, sinkreq,
                   sinkBudget, opening, broken>>

\* ------------------------------------------------------------ initial states
\* The engine some time after construction: the source's socket is open on the
\* coordinator, the sinks in sinkRows are open on the sites `placement` gives
\* them, and the store holds the given rows. Every such state is reached from
\* the empty store by opens, user.authenticate, channel.create,
\* channel.subscribers.add and channel.messages.send. inbox holds the frames
\* received from here on.
Scenario(sinkRows, placement, shards, channelRows, subscriptionRows, messageRows) ==
    /\ peers = sinkRows \cup { PeerRow(SourceId, "A", "source", Null, Null) }
    /\ channels = channelRows
    /\ subscriptions = subscriptionRows
    /\ storedMessages = messageRows
    /\ clock = IF messageRows = {} THEN 0
               ELSE CHOOSE t \in { m.createdAt : m \in messageRows } :
                        \A m \in messageRows : m.createdAt <= t
    /\ rowSeq = Cardinality(subscriptionRows)
    /\ live = { r.id : r \in sinkRows } \cup {SourceId}
    /\ shardOf = placement
    /\ registered = shards
    /\ inbox = NoFrames
    /\ acts = [a \in ActIds |-> IdleAct]
    /\ closing = [p \in PeerIds |-> IdleClose]
    /\ sinkreq = [p \in PeerIds |-> IdleSinkReq]
    /\ sinkBudget = MaxSinkReqs
    /\ opening = [p \in PeerIds |-> IdleOpen]
    /\ broken = {}

Placement(s1, s2, s3) ==
    [p \in PeerIds |->
        CASE p = "p1" -> s1 [] p = "p2" -> s2 [] p = "p3" -> s3
          [] OTHER -> Coord]

\* Membership: two sinks on one shard, p1 never authenticated and p2
\* authenticated, one channel of any auth mode with p2 subscribed to it.
InitMembership ==
    \E auth \in AuthModes :
        Scenario({ PeerRow("p1", "A", "sink", Null, Null),
                   PeerRow("p2", "A", "sink", "u2", "info2") },
                 Placement("s1", "s1", "s1"), {"s1"},
                 { ChannelRow("c1", "A", "general", auth, FALSE) },
                 { SubscriptionRow(1, "A", "p2", "c1") },
                 {})

\* Subscribe and unsubscribe requests only.
NextSubscribe ==
    \/ \E k \in Slots : \E sub \in {"p1", "p2"} :
            RecvSubscribersAdd(k, "e1", sub, "c1")
    \/ \E a \in ActIds : SubscribersAdd_FindChannel(a)
    \/ \E a \in ActIds : SubscribersAdd_FindPeer(a)
    \/ \E a \in ActIds : SubscribersAdd_ExistingSubs(a)
    \/ \E a \in ActIds : SubscribersAdd_Insert(a)
    \/ \E a \in ActIds : SubscribersAdd_Distributed(a)
    \/ \E k \in Slots : \E sub \in {"p1", "p2"} :
            RecvSubscribersRemove(k, "e1", sub, "c1")
    \/ \E a \in ActIds : SubscribersRemove_FindChannel(a)
    \/ \E a \in ActIds : SubscribersRemove_FindPeer(a)
    \/ \E a \in ActIds : SubscribersRemove_IsInChannel(a)
    \/ \E a \in ActIds : SubscribersRemove_Delete(a)
    \/ \E a \in ActIds : SubscribersRemove_RemainingSubs(a)
    \/ \E a \in ActIds : SubscribersRemove_Distributed(a)

SpecSubscribe == InitMembership /\ [][NextSubscribe]_vars

\* Subscribe, unsubscribe, channel.delete and socket close.
NextMembership ==
    \/ NextSubscribe
    \/ \E k \in Slots : RecvChannelDelete(k, "e1", "c1")
    \/ \E a \in ActIds : ChannelDelete_FindChannel(a)
    \/ \E a \in ActIds : ChannelDelete_Delete(a)
    \/ \E p \in SinkIds : SocketClose(p)
    \/ \E p \in SinkIds : Close_ConnectedChannels(p)
    \/ \E p \in SinkIds : Close_PeerInfo(p)
    \/ \E p \in SinkIds : Close_DeletePeer(p)
    \/ \E p \in SinkIds : Close_Notify(p)

SpecMembership == InitMembership /\ [][NextMembership]_vars

\* Socket close: p1 and p3 on shard s1, p2 on shard s2, all subscribed to the
\* presence channel c1, p1 alone subscribed to c2.
InitClose ==
    Scenario({ PeerRow("p1", "A", "sink", "u1", "info1"),
               PeerRow("p2", "A", "sink", "u2", "info2"),
               PeerRow("p3", "A", "sink", Null, Null) },
             Placement("s1", "s2", "s1"), {"s1", "s2"},
             { ChannelRow("c1", "A", "general", "presence", FALSE),
               ChannelRow("c2", "A", "other", "private", FALSE) },
             { SubscriptionRow(1, "A", "p1", "c1"),
               SubscriptionRow(2, "A", "p2", "c1"),
               SubscriptionRow(3, "A", "p3", "c1"),
               SubscriptionRow(4, "A", "p1", "c2") },
             {})

\* The steps of hooks.close, for any sink.
CloseSteps ==
    \/ \E p \in SinkIds : SocketClose(p)
    \/ \E p \in SinkIds : Close_ConnectedChannels(p)
    \/ \E p \in SinkIds : Close_PeerInfo(p)
    \/ \E p \in SinkIds : Close_DeletePeer(p)
    \/ \E p \in SinkIds : Close_Notify(p)

NextClose == CloseSteps

\* Socket close racing with requests: one shard, p1 subscribed to c1, p2 to
\* c1, nobody to c2.
InitReap ==
    Scenario({ PeerRow("p1", "A", "sink", "u1", "info1"),
               PeerRow("p2", "A", "sink", "u2", "info2") },
             Placement("s1", "s1", "s1"), {"s1"},
             { ChannelRow("c1", "A", "general", "presence", FALSE),
               ChannelRow("c2", "A", "other", "private", FALSE) },
             { SubscriptionRow(1, "A", "p1", "c1"),
               SubscriptionRow(2, "A", "p2", "c1") },
             {})

\* Socket close of p1, with subscribe and unsubscribe requests for p1 and p2.
NextReap ==
    \/ SocketClose("p1")
    \/ Close_ConnectedChannels("p1")
    \/ Close_PeerInfo("p1")
    \/ Close_DeletePeer("p1")
    \/ Close_Notify("p1")
    \/ \E k \in Slots : \E sub \in {"p1", "p2"} :
            RecvSubscribersAdd(k, "e1", sub, "c1")
    \/ \E a \in ActIds : SubscribersAdd_FindChannel(a)
    \/ \E a \in ActIds : SubscribersAdd_FindPeer(a)
    \/ \E a \in ActIds : SubscribersAdd_ExistingSubs(a)
    \/ \E a \in ActIds : SubscribersAdd_Insert(a)
    \/ \E a \in ActIds : SubscribersAdd_Distributed(a)
    \/ \E k \in Slots : \E sub \in {"p1", "p2"} :
            RecvSubscribersRemove(k, "e1", sub, "c1")
    \/ \E a \in ActIds : SubscribersRemove_FindChannel(a)
    \/ \E a \in ActIds : SubscribersRemove_FindPeer(a)
    \/ \E a \in ActIds : SubscribersRemove_IsInChannel(a)
    \/ \E a \in ActIds : SubscribersRemove_Delete(a)
    \/ \E a \in ActIds : SubscribersRemove_RemainingSubs(a)
    \/ \E a \in ActIds : SubscribersRemove_Distributed(a)

\* A store query that hooks.close awaits is answered, and the handler resumes.
CloseFairness ==
    \A p \in SinkIds :
        /\ WF_vars(Close_ConnectedChannels(p))
        /\ WF_vars(Close_PeerInfo(p))
        /\ WF_vars(Close_DeletePeer(p))
        /\ WF_vars(Close_Notify(p))

SpecClose == InitClose /\ [][NextClose]_vars /\ CloseFairness

SpecReap == InitReap /\ [][NextReap]_vars /\ CloseFairness

\* Stored messages: two channels of app A that store their messages, the
\* sinks (if any) authenticated, and
\*   - no sink yet, hence no worker shard registered; or
\*   - one shard with p1 (subscribed to c1) and p2 (subscribed to nothing); or
\*   - two shards, p1 on s1 and p2 on s2, both subscribed to c1.
InitMessages ==
    LET chans == { ChannelRow("c1", "A", "general", "public", TRUE),
                   ChannelRow("c2", "A", "other", "public", TRUE) }
        sinks == { PeerRow("p1", "A", "sink", "u1", "info1"),
                   PeerRow("p2", "A", "sink", "u2", "info2") }
    IN \/ Scenario({}, Placement("s1", "s1", "s1"), {}, chans, {}, {})
       \/ Scenario(sinks, Placement("s1", "s1", "s1"), {"s1"}, chans,
                   { SubscriptionRow(1, "A", "p1", "c1") }, {})
       \/ Scenario(sinks, Placement("s1", "s2", "s1"), {"s1", "s2"}, chans,
                   { SubscriptionRow(1, "A", "p1", "c1"),
                     SubscriptionRow(2, "A", "p2", "c1") }, {})

\* channel.messages.send from the source, request-stored-messages from sinks.
NextMessages ==
    \/ \E k \in Slots : \E id \in MsgIds : \E c \in ChannelIds :
            RecvMessagesSend(k, id, c, "ev", "hello")
    \/ \E a \in ActIds : MessagesSend_FindChannel(a)
    \/ \E a \in ActIds : MessagesSend_Subscriptions(a)
    \/ \E a \in ActIds : MessagesSend_Insert(a)
    \/ \E a \in ActIds : MessagesSend_Distributed(a)
    \/ \E p \in SinkIds : \E c \in ChannelIds : \E ids \in SUBSET MsgIds :
            SinkRequestStoredMessages(p, c, ids)
    \/ \E p \in SinkIds : Sink_SendStoredMessages(p)

SpecMessages == InitMessages /\ [][NextMessages]_vars

\* Broadcast: p1 on shard s1 and p2 on shard s2, both of app A, p3 of app B
\* on shard s1; p2 subscribed to c1.
InitBroadcast ==
    Scenario({ PeerRow("p1", "A", "sink", Null, Null),
               PeerRow("p2", "A", "sink", "u2", "info2"),
               PeerRow("p3", "B", "sink", Null, Null) },
             Placement("s1", "s2", "s1"), {"s1", "s2"},
             { ChannelRow("c1", "A", "general", "private", FALSE) },
             { SubscriptionRow(1, "A", "p2", "c1") },
             {})

\* global.messages.send from the source, any frame from the sinks, and the
\* close of p1.
NextBroadcast ==
    \/ \E k \in Slots : \E id \in MsgIds : RecvGlobalSend(k, id, "ev", "hello")
    \/ \E a \in ActIds : GlobalSend_DbPeers(a)
    \/ \E a \in ActIds : GlobalSend_Distributed(a)
    \/ \E p \in SinkIds : \E frame \in OtherSinkFrames \cup {TextFrame("ping")} :
            HookMessage(p, frame)
    \/ SocketClose("p1")
    \/ Close_ConnectedChannels("p1")
    \/ Close_PeerInfo("p1")
    \/ Close_DeletePeer("p1")
    \/ Close_Notify("p1")

SpecBroadcast == InitBroadcast /\ [][NextBroadcast]_vars

\* Snapshot: p1 subscribed to the storing channel c1 and p2 not subscribed
\* yet, both on shard s1, or p1 on s1 and p2 on s2.
InitSnapshot ==
    \E shards \in { {"s1"}, {"s1", "s2"} } :
        Scenario({ PeerRow("p1", "A", "sink", "u1", "info1"),
                   PeerRow("p2", "A", "sink", "u2", "info2") },
                 Placement("s1", IF shards = {"s1"} THEN "s1" ELSE "s2", "s1"),
                 shards,
                 { ChannelRow("c1", "A", "general", "private", TRUE) },
                 { SubscriptionRow(1, "A", "p1", "c1") },
                 {})

\* channel.messages.send to c1 and the subscribe of p2 to c1.
NextSnapshot ==
    \/ \E k \in Slots : \E id \in MsgIds :
            RecvMessagesSend(k, id, "c1", "ev", "hello")
    \/ \E a \in ActIds : MessagesSend_FindChannel(a)
    \/ \E a \in ActIds : MessagesSend_Subscriptions(a)
    \/ \E a \in ActIds : MessagesSend_Insert(a)
    \/ \E a \in ActIds : MessagesSend_Distributed(a)
    \/ \E k \in Slots : RecvSubscribersAdd(k, "e1", "p2", "c1")
    \/ \E a \in ActIds : SubscribersAdd_FindChannel(a)
    \/ \E a \in ActIds : SubscribersAdd_FindPeer(a)
    \/ \E a \in ActIds : SubscribersAdd_ExistingSubs(a)
    \/ \E a \in ActIds : SubscribersAdd_Insert(a)
    \/ \E a \in ActIds : SubscribersAdd_Distributed(a)

SpecSnapshot == InitSnapshot /\ [][NextSnapshot]_vars

\* Direct messages: no sink and no shard; or p1 (user u1) on shard s1 and p2
\* (user u2) on shard s2; or two sockets of user u1, p1 and p2, on shard s1.
InitDirect ==
    \/ Scenario({}, Placement("s1", "s1", "s1"), {}, {}, {}, {})
    \/ Scenario({ PeerRow("p1", "A", "sink", "u1", "info1"),
                  PeerRow("p2", "A", "sink", "u2", "info2") },
                Placement("s1", "s2", "s1"), {"s1", "s2"}, {}, {}, {})
    \/ Scenario({ PeerRow("p1", "A", "sink", "u1", "info1"),
                  PeerRow("p2", "A", "sink", "u1", "info1") },
                Placement("s1", "s1", "s1"), {"s1"}, {}, {}, {})

\* The recipients named by the source: a peer id, a user id, and an id that
\* is nobody's.
Recipients == {"p1", "u1", "nobody"}

\* user.messages.send from the source, and the close of p1.
NextDirect ==
    \/ \E k \in Slots : \E id \in MsgIds : \E to \in Recipients :
            RecvUserSend(k, id, to, "ev", "hello")
    \/ \E a \in ActIds : UserSend_FindPeer(a)
    \/ \E a \in ActIds : UserSend_Distributed(a)
    \/ SocketClose("p1")
    \/ Close_ConnectedChannels("p1")
    \/ Close_PeerInfo("p1")
    \/ Close_DeletePeer("p1")
    \/ Close_Notify("p1")

SpecDirect == InitDirect /\ [][NextDirect]_vars

\* Notifications: p1 (user u1) and p3 (no user) on shard s1, p2 (user u2) on
\* shard s2; p1 and p2 subscribed to the presence channel c1, p3 to c2.
InitNotify ==
    Scenario({ PeerRow("p1", "A", "sink", "u1", "info1"),
               PeerRow("p2", "A", "sink", "u2", "info2"),
               PeerRow("p3", "A", "sink", Null, Null) },
             Placement("s1", "s2", "s1"), {"s1", "s2"},
             { ChannelRow("c1", "A", "general", "presence", FALSE),
               ChannelRow("c2", "A", "other", "private", FALSE) },
             { SubscriptionRow(1, "A", "p1", "c1"),
               SubscriptionRow(2, "A", "p2", "c1"),
               SubscriptionRow(3, "A", "p3", "c2") },
             {})

\* Subscribe and unsubscribe of p1 and p3, to and from either channel.
NextNotify ==
    \/ \E k \in Slots : \E sub \in {"p1", "p3"} : \E c \in ChannelIds :
            RecvSubscribersAdd(k, "e1", sub, c)
    \/ \E a \in ActIds : SubscribersAdd_FindChannel(a)
    \/ \E a \in ActIds : SubscribersAdd_FindPeer(a)
    \/ \E a \in ActIds : SubscribersAdd_ExistingSubs(a)
    \/ \E a \in ActIds : SubscribersAdd_Insert(a)
    \/ \E a \in ActIds : SubscribersAdd_Distributed(a)
    \/ \E k \in Slots : \E sub \in {"p1", "p3"} : \E c \in ChannelIds :
            RecvSubscribersRemove(k, "e1", sub, c)
    \/ \E a \in ActIds : SubscribersRemove_FindChannel(a)
    \/ \E a \in ActIds : SubscribersRemove_FindPeer(a)
    \/ \E a \in ActIds : SubscribersRemove_IsInChannel(a)
    \/ \E a \in ActIds : SubscribersRemove_Delete(a)
    \/ \E a \in ActIds : SubscribersRemove_RemainingSubs(a)
    \/ \E a \in ActIds : SubscribersRemove_Distributed(a)

SpecNotify == InitNotify /\ [][NextNotify]_vars

\* Replay: p1 (user u1) on shard s1, subscribed to nothing; c1 stores its
\* messages and c2 does not; either nothing is stored yet or m1 is, in c1.
InitReplay ==
    \E stored \in { {}, { MessageRow("m1", "A", "c1", 1, "hello") } } :
        Scenario({ PeerRow("p1", "A", "sink", "u1", "info1") },
                 Placement("s1", "s1", "s1"), {"s1"},
                 { ChannelRow("c1", "A", "general", "private", TRUE),
                   ChannelRow("c2", "A", "other", "private", FALSE) },
                 {}, stored)

\* channel.messages.send to either channel and the subscribe of p1 to either.
NextReplay ==
    \/ \E k \in Slots : \E id \in MsgIds : \E c \in ChannelIds :
            RecvMessagesSend(k, id, c, "ev", "hello")
    \/ \E a \in ActIds : MessagesSend_FindChannel(a)
    \/ \E a \in ActIds : MessagesSend_Subscriptions(a)
    \/ \E a \in ActIds : MessagesSend_Insert(a)
    \/ \E a \in ActIds : MessagesSend_Distributed(a)
    \/ \E k \in Slots : \E c \in ChannelIds :
            RecvSubscribersAdd(k, "e1", "p1", c)
    \/ \E a \in ActIds : SubscribersAdd_FindChannel(a)
    \/ \E a \in ActIds : SubscribersAdd_FindPeer(a)
    \/ \E a \in ActIds : SubscribersAdd_ExistingSubs(a)
    \/ \E a \in ActIds : SubscribersAdd_Insert(a)
    \/ \E a \in ActIds : SubscribersAdd_Distributed(a)

SpecReplay == InitReplay /\ [][NextReplay]_vars

\* Member entries: p1 and p2 authenticated with user info, on one shard; c1
\* in any of the auth modes, p2 subscribed to it.
InitPresence ==
    \E auth \in AuthModes :
        Scenario({ PeerRow("p1", "A", "sink", "u1", "info1"),
                   PeerRow("p2", "A", "sink", "u2", "info2") },
                 Placement("s1", "s1", "s1"), {"s1"},
                 { ChannelRow("c1", "A", "general", auth, FALSE) },
                 { SubscriptionRow(1, "A", "p2", "c1") },
                 {})

\* Subscribe and unsubscribe of p1, and the close of either socket.
NextPresence ==
    \/ CloseSteps
    \/ \E k \in Slots : RecvSubscribersAdd(k, "e1", "p1", "c1")
    \/ \E a \in ActIds : SubscribersAdd_FindChannel(a)
    \/ \E a \in ActIds : SubscribersAdd_FindPeer(a)
    \/ \E a \in ActIds : SubscribersAdd_ExistingSubs(a)
    \/ \E a \in ActIds : SubscribersAdd_Insert(a)
    \/ \E a \in ActIds : SubscribersAdd_Distributed(a)
    \/ \E k \in Slots : RecvSubscribersRemove(k, "e1", "p1", "c1")
    \/ \E a \in ActIds : SubscribersRemove_FindChannel(a)
    \/ \E a \in ActIds : SubscribersRemove_FindPeer(a)
    \/ \E a \in ActIds : SubscribersRemove_IsInChannel(a)
    \/ \E a \in ActIds : SubscribersRemove_Delete(a)
    \/ \E a \in ActIds : SubscribersRemove_RemainingSubs(a)
    \/ \E a \in ActIds : SubscribersRemove_Distributed(a)

SpecPresence == InitPresence /\ [][NextPresence]_vars

\* Channels: p1 (user u1) on shard s1; the channel c1 "general" stores its
\* messages and holds m1; nobody is subscribed.
InitChannels ==
    Scenario({ PeerRow("p1", "A", "sink", "u1", "info1") },
             Placement("s1", "s1", "s1"), {"s1"},
             { ChannelRow("c1", "A", "general", "private", TRUE) },
             {},
             { MessageRow("m1", "A", "c1", 1, "hello") })

\* channel.create for the existing name and for a new one, channel.delete of
\* c1, a subscribe of p1 to c1, a send to c1, and the close of p1.
NextChannels ==
    \/ \E k \in Slots : \E name \in {"general", "fresh"} : \E st \in BOOLEAN :
            RecvChannelCreate(k, "e1", name, "presence", st)
    \/ \E a \in ActIds : ChannelCreate_Existing(a)
    \/ \E a \in ActIds : ChannelCreate_Update(a)
    \/ \E a \in ActIds : ChannelCreate_Insert(a)
    \/ \E k \in Slots : RecvChannelDelete(k, "e1", "c1")
    \/ \E a \in ActIds : ChannelDelete_FindChannel(a)
    \/ \E a \in ActIds : ChannelDelete_Delete(a)
    \/ \E k \in Slots : RecvSubscribersAdd(k, "e1", "p1", "c1")
    \/ \E a \in ActIds : SubscribersAdd_FindChannel(a)
    \/ \E a \in ActIds : SubscribersAdd_FindPeer(a)
    \/ \E a \in ActIds : SubscribersAdd_ExistingSubs(a)
    \/ \E a \in ActIds : SubscribersAdd_Insert(a)
    \/ \E a \in ActIds : SubscribersAdd_Distributed(a)
    \/ \E k \in Slots : RecvMessagesSend(k, "m2", "c1", "ev", "hello")
    \/ \E a \in ActIds : MessagesSend_FindChannel(a)
    \/ \E a \in ActIds : MessagesSend_Subscriptions(a)
    \/ \E a \in ActIds : MessagesSend_Insert(a)
    \/ \E a \in ActIds : MessagesSend_Distributed(a)
    \/ SocketClose("p1")
    \/ Close_ConnectedChannels("p1")
    \/ Close_PeerInfo("p1")
    \/ Close_DeletePeer("p1")
    \/ Close_Notify("p1")

SpecChannels == InitChannels /\ [][NextChannels]_vars

\* Purge: app A has the storing channel c1 with m1 and m2, app B the storing
\* channel c2 with m3; no sink is connected.
InitPurge ==
    Scenario({}, Placement("s1", "s1", "s1"), {},
             { ChannelRow("c1", "A", "general", "public", TRUE),
               ChannelRow("c2", "B", "general", "public", TRUE) },
             {},
             { MessageRow("m1", "A", "c1", 1, "hello"),
               MessageRow("m2", "A", "c1", 2, "hello"),
               MessageRow("m3", "B", "c2", 2, "hello") })

\* The requests of channel.messages.delete: messageIds absent, or any array.
PurgeRequests ==
    { [channelId |-> c] : c \in ChannelIds } \cup
    { [channelId |-> c, messageIds |-> ids] :
        c \in ChannelIds, ids \in SUBSET {"m1", "m2", "m3"} }

NextPurge ==
    \/ \E k \in Slots : \E request \in PurgeRequests :
            RecvMessagesDelete(k, "e1", request)
    \/ \E a \in ActIds : MessagesDelete_Delete(a)

SpecPurge == InitPurge /\ [][NextPurge]_vars

\* Connections: the source is connected, no sink is.
InitOpen ==
    Scenario({}, Placement("s1", "s1", "s1"), {"s1"}, {}, {}, {})

\* p1 and p2 connect to app A with any key, and their sockets close.
NextOpen ==
    \/ \E p \in {"p1", "p2"} : \E appKey \in AppKeys : SocketOpen(p, "A", appKey)
    \/ \E p \in SinkIds : Open_FindApp(p)
    \/ \E p \in SinkIds : Open_Insert(p)
    \/ \E p \in SinkIds : Open_Init(p)
    \/ CloseSteps

SpecOpen == InitOpen /\ [][NextOpen]_vars

\* HTTP: the sink p1 of app A is connected on shard s1.
InitFetch ==
    Scenario({ PeerRow("p1", "A", "sink", Null, Null) },
             Placement("s1", "s1", "s1"), {"s1"}, {}, {}, {})

\* Any HTTP request, and the steps of the route an accepted one runs.
NextFetch ==
    \/ \E k \in Slots : \E request \in FetchRequests : Fetch(k, request)
    \/ \E a \in ActIds : GlobalSend_DbPeers(a)
    \/ \E a \in ActIds : GlobalSend_Distributed(a)

SpecFetch == InitFetch /\ [][NextFetch]_vars

\* Envelopes: p1 (user u1) on shard s1, subscribed to the private channel c1.
InitEnvelopes ==
    Scenario({ PeerRow("p1", "A", "sink", "u1", "info1") },
             Placement("s1", "s1", "s1"), {"s1"},
             { ChannelRow("c1", "A", "general", "private", FALSE) },
             { SubscriptionRow(1, "A", "p1", "c1") },
             {})

\* The source sends envelopes back to back: a subscribe or an unsubscribe
\* of p1, or an envelope with an unknown route; each is handled and answered.
NextEnvelopes ==
    \/ \E k \in Slots : RecvSubscribersAdd(k, EnvelopeId(k), "p1", "c1")
    \/ \E a \in ActIds : SubscribersAdd_FindChannel(a)
    \/ \E a \in ActIds : SubscribersAdd_FindPeer(a)
    \/ \E a \in ActIds : SubscribersAdd_ExistingSubs(a)
    \/ \E a \in ActIds : SubscribersAdd_Insert(a)
    \/ \E a \in ActIds : SubscribersAdd_Distributed(a)
    \/ \E k \in Slots : RecvSubscribersRemove(k, EnvelopeId(k), "p1", "c1")
    \/ \E a \in ActIds : SubscribersRemove_FindChannel(a)
    \/ \E a \in ActIds : SubscribersRemove_FindPeer(a)
    \/ \E a \in ActIds : SubscribersRemove_IsInChannel(a)
    \/ \E a \in ActIds : SubscribersRemove_Delete(a)
    \/ \E a \in ActIds : SubscribersRemove_RemainingSubs(a)
    \/ \E a \in ActIds : SubscribersRemove_Distributed(a)
    \/ \E k \in Slots :
            RecvInvalidEnvelope(k, [id |-> EnvelopeId(k),
                                    data |-> [route |-> "nope",
                                              request |-> <<>>]])
    \/ \E a \in ActIds : Reply(a)

\* A store query or a distribute that a handler awaits is answered, the
\* handler resumes, and what it returns is sent.
EnvelopeFairness ==
    \A a \in ActIds :
        /\ WF_vars(SubscribersAdd_FindChannel(a))
        /\ WF_vars(SubscribersAdd_FindPeer(a))
        /\ WF_vars(SubscribersAdd_ExistingSubs(a))
        /\ WF_vars(SubscribersAdd_Insert(a))
        /\ WF_vars(SubscribersAdd_Distributed(a))
        /\ WF_vars(SubscribersRemove_FindChannel(a))
        /\ WF_vars(SubscribersRemove_FindPeer(a))
        /\ WF_vars(SubscribersRemove_IsInChannel(a))
        /\ WF_vars(SubscribersRemove_Delete(a))
        /\ WF_vars(SubscribersRemove_RemainingSubs(a))
        /\ WF_vars(SubscribersRemove_Distributed(a))
        /\ WF_vars(Reply(a))

SpecEnvelopes == InitEnvelopes /\ [][NextEnvelopes]_vars /\ EnvelopeFairness

\* The envelopes of the routes that need the coordinator.
CoordinatorRouteFrames ==
    { JsonFrame([id |-> "e9", data |-> [route |-> rt, request |-> rq]]) :
        <<rt, rq>> \in
            ({"user.authenticate"} \X
                { [peerId |-> q, id |-> u, userInfo |-> "info1"] :
                    q \in {"p1", "p2"}, u \in UserIds })
            \cup ({"channel.create"} \X
                { [name |-> n, authMode |-> m, storeMessages |-> st] :
                    n \in {"general", "fresh"}, m \in AuthModes,
                    st \in BOOLEAN })
            \cup ({"channel.delete"} \X
                { [channelId |-> c] : c \in ChannelIds })
            \cup ({"channel.messages.delete"} \X
                { [channelId |-> "c1", messageIds |-> ids] :
                    ids \in SUBSET {"m1"} }) }

\* Shard routes: p1, whose row says source, holds its socket on the shard
\* s1, as does the sink p2; c1 stores its messages and holds m1.
InitShardRoutes ==
    Scenario({ PeerRow("p1", "A", "source", Null, Null),
               PeerRow("p2", "A", "sink", Null, Null) },
             Placement("s1", "s1", "s1"), {"s1"},
             { ChannelRow("c1", "A", "general", "public", TRUE) },
             {},
             { MessageRow("m1", "A", "c1", 1, "hello") })

\* Envelopes from p1, handled on its shard, and the same routes asked of
\* the coordinator by the source connected there.
NextShardRoutes ==
    \/ \E frame \in CoordinatorRouteFrames : HookMessage("p1", frame)
    \/ \E k \in Slots : RecvAuthenticate(k, "e1", "p2", "u2", "info2")
    \/ \E a \in ActIds : Authenticate_FindPeer(a)
    \/ \E a \in ActIds : Authenticate_Update(a)
    \/ \E k \in Slots : RecvChannelCreate(k, "e1", "general", "private", FALSE)
    \/ \E a \in ActIds : ChannelCreate_Existing(a)
    \/ \E a \in ActIds : ChannelCreate_Update(a)
    \/ \E a \in ActIds : ChannelCreate_Insert(a)
    \/ \E k \in Slots : RecvChannelDelete(k, "e1", "c1")
    \/ \E a \in ActIds : ChannelDelete_FindChannel(a)
    \/ \E a \in ActIds : ChannelDelete_Delete(a)
    \/ \E k \in Slots : RecvMessagesDelete(k, "e1", [channelId |-> "c1"])
    \/ \E a \in ActIds : MessagesDelete_Delete(a)

SpecShardRoutes == InitShardRoutes /\ [][NextShardRoutes]_vars

\* The messages the source sends, by the id of the request that carries
\* them: a plain message, two chunks of one message in the order the source
\* happens to send them, and a chunk with a member the schema does not know.
SentMessages ==
    [id \in {"m1", "m2", "m3", "m4"} |->
        CASE id = "m1" -> [type |-> "plain", message |-> "hello"]
          [] id = "m2" -> [type |-> "chunk", index |-> 1, message |-> "lo"]
          [] id = "m3" -> [type |-> "chunk", index |-> 0, message |-> "hel"]
          [] id = "m4" -> [type |-> "chunk", index |-> 7, message |-> "x",
                           total |-> 9]]

\* Payloads: p1 (user u1) on shard s1 and subscribed to c1, which stores its
\* messages; p2 on shard s2.
InitPayload ==
    Scenario({ PeerRow("p1", "A", "sink", "u1", "info1"),
               PeerRow("p2", "A", "sink", Null, Null) },
             Placement("s1", "s2", "s1"), {"s1", "s2"},
             { ChannelRow("c1", "A", "general", "private", TRUE) },
             { SubscriptionRow(1, "A", "p1", "c1") },
             {})

\* A broadcast, a send to c1 and a direct send to p1 of any of the
\* messages, and p1 asking for all the stored messages of c1.
NextPayload ==
    \/ \E k \in Slots : \E id \in DOMAIN SentMessages :
            RecvGlobalSend(k, id, "ev", MessageTypeSchema_parse(SentMessages[id]))
    \/ \E a \in ActIds : GlobalSend_DbPeers(a)
    \/ \E a \in ActIds : GlobalSend_Distributed(a)
    \/ \E k \in Slots : \E id \in DOMAIN SentMessages :
            RecvMessagesSend(k, id, "c1", "ev",
                             MessageTypeSchema_parse(SentMessages[id]))
    \/ \E a \in ActIds : MessagesSend_FindChannel(a)
    \/ \E a \in ActIds : MessagesSend_Subscriptions(a)
    \/ \E a \in ActIds : MessagesSend_Insert(a)
    \/ \E a \in ActIds : MessagesSend_Distributed(a)
    \/ \E k \in Slots : \E id \in DOMAIN SentMessages :
            RecvUserSend(k, id, "p1", "ev",
                         MessageTypeSchema_parse(SentMessages[id]))
    \/ \E a \in ActIds : UserSend_FindPeer(a)
    \/ \E a \in ActIds : UserSend_Distributed(a)
    \/ SinkRequestStoredMessages("p1", "c1", DOMAIN SentMessages)
    \/ Sink_SendStoredMessages("p1")

SpecPayload == InitPayload /\ [][NextPayload]_vars

\* Failed membership requests: p1 (user u1) on shard s1, the private channel
\* c1, p1 subscribed to it or not.
InitRollback ==
    \E subs \in { {}, { SubscriptionRow(1, "A", "p1", "c1") } } :
        Scenario({ PeerRow("p1", "A", "sink", "u1", "info1") },
                 Placement("s1", "s1", "s1"), {"s1"},
                 { ChannelRow("c1", "A", "general", "private", FALSE) },
                 subs, {})

\* The subscribe and the unsubscribe of the user u1, the authentication of
\* p1 as u2, and the close of p1.
NextRollback ==
    \/ \E k \in Slots : RecvSubscribersAdd(k, EnvelopeId(k), "u1", "c1")
    \/ \E a \in ActIds : SubscribersAdd_FindChannel(a)
    \/ \E a \in ActIds : SubscribersAdd_FindPeer(a)
    \/ \E a \in ActIds : SubscribersAdd_ExistingSubs(a)
    \/ \E a \in ActIds : SubscribersAdd_Insert(a)
    \/ \E a \in ActIds : SubscribersAdd_Distributed(a)
    \/ \E k \in Slots : RecvSubscribersRemove(k, EnvelopeId(k), "u1", "c1")
    \/ \E a \in ActIds : SubscribersRemove_FindChannel(a)
    \/ \E a \in ActIds : SubscribersRemove_FindPeer(a)
    \/ \E a \in ActIds : SubscribersRemove_IsInChannel(a)
    \/ \E a \in ActIds : SubscribersRemove_Delete(a)
    \/ \E a \in ActIds : SubscribersRemove_RemainingSubs(a)
    \/ \E a \in ActIds : SubscribersRemove_Distributed(a)
    \/ \E k \in Slots : RecvAuthenticate(k, EnvelopeId(k), "p1", "u2", "info2")
    \/ \E a \in ActIds : Authenticate_FindPeer(a)
    \/ \E a \in ActIds : Authenticate_Update(a)
    \/ SocketClose("p1")
    \/ Close_ConnectedChannels("p1")
    \/ Close_PeerInfo("p1")
    \/ Close_DeletePeer("p1")
    \/ Close_Notify("p1")

SpecRollback == InitRollback /\ [][NextRollback]_vars

\* First frame: the source is connected and the shard s1 is registered; no
\* sink is connected.
InitFirstFrame ==
    Scenario({}, Placement("s1", "s1", "s1"), {"s1"}, {}, {}, {})

\* p1 and p2 connect to app A as sinks while the source broadcasts.
NextFirstFrame ==
    \/ \E p \in {"p1", "p2"} : SocketOpen(p, "A", Null)
    \/ \E p \in SinkIds : Open_FindApp(p)
    \/ \E p \in SinkIds : Open_Insert(p)
    \/ \E p \in SinkIds : Open_Init(p)
    \/ \E k \in Slots : RecvGlobalSend(k, "m1", "ev", "hello")
    \/ \E a \in ActIds : GlobalSend_DbPeers(a)
    \/ \E a \in ActIds : GlobalSend_Distributed(a)

SpecFirstFrame == InitFirstFrame /\ [][NextFirstFrame]_vars

\* Two apps on one shard: p1 (user u1) of app A and p3 of app B, which has
\* authenticated as u1 too, both on shard s1; app A has the storing channel
\* c1 with the message m1, app B the storing channel c2 with the message m2
\* and p3 subscribed to it.
InitTenants ==
    Scenario({ PeerRow("p1", "A", "sink", "u1", "info1"),
               PeerRow("p3", "B", "sink", "u1", "infoB") },
             Placement("s1", "s1", "s1"), {"s1"},
             { ChannelRow("c1", "A", "general", "private", TRUE),
               ChannelRow("c2", "B", "secret", "private", TRUE) },
             { SubscriptionRow(1, "B", "p3", "c2") },
             { MessageRow("m1", "A", "c1", 0, JSON_stringify(
                    [channelId |-> "c1", event |-> "ev", message |-> "hello"])),
               MessageRow("m2", "B", "c2", 0, JSON_stringify(
                    [channelId |-> "c2", event |-> "ev", message |-> "secret"])) })

\* Every route, asked by the source of app A and naming the peers, users,
\* channels and messages of both apps, and p1 asking for stored messages of
\* both channels.
NextTenants ==
    \/ \E k \in Slots : RecvGlobalSend(k, "e1", "ev", "hello")
    \/ \E a \in ActIds : GlobalSend_DbPeers(a)
    \/ \E a \in ActIds : GlobalSend_Distributed(a)
    \/ \E k \in Slots : \E c \in {"c1", "c2"} :
            RecvMessagesSend(k, "e1", c, "ev", "hello")
    \/ \E a \in ActIds : MessagesSend_FindChannel(a)
    \/ \E a \in ActIds : MessagesSend_Subscriptions(a)
    \/ \E a \in ActIds : MessagesSend_Insert(a)
    \/ \E a \in ActIds : MessagesSend_Distributed(a)
    \/ \E k \in Slots : \E who \in {"u1", "p3"} :
            RecvUserSend(k, "e1", who, "ev", "hello")
    \/ \E a \in ActIds : UserSend_FindPeer(a)
    \/ \E a \in ActIds : UserSend_Distributed(a)
    \/ \E k \in Slots : \E who \in {"u1", "p3"} : \E c \in {"c1", "c2"} :
            RecvSubscribersAdd(k, "e1", who, c)
    \/ \E a \in ActIds : SubscribersAdd_FindChannel(a)
    \/ \E a \in ActIds : SubscribersAdd_FindPeer(a)
    \/ \E a \in ActIds : SubscribersAdd_ExistingSubs(a)
    \/ \E a \in ActIds : SubscribersAdd_Insert(a)
    \/ \E a \in ActIds : SubscribersAdd_Distributed(a)
    \/ \E k \in Slots : \E who \in {"u1", "p3"} : \E c \in {"c1", "c2"} :
            RecvSubscribersRemove(k, "e1", who, c)
    \/ \E a \in ActIds : SubscribersRemove_FindChannel(a)
    \/ \E a \in ActIds : SubscribersRemove_FindPeer(a)
    \/ \E a \in ActIds : SubscribersRemove_IsInChannel(a)
    \/ \E a \in ActIds : SubscribersRemove_Delete(a)
    \/ \E a \in ActIds : SubscribersRemove_RemainingSubs(a)
    \/ \E a \in ActIds : SubscribersRemove_Distributed(a)
    \/ \E k \in Slots : \E peerId \in {"p1", "p3"} :
            RecvAuthenticate(k, "e1", peerId, "u2", "info2")
    \/ \E a \in ActIds : Authenticate_FindPeer(a)
    \/ \E a \in ActIds : Authenticate_Update(a)
    \/ \E k \in Slots : \E c \in {"c1", "c2"} : RecvChannelDelete(k, "e1", c)
    \/ \E a \in ActIds : ChannelDelete_FindChannel(a)
    \/ \E a \in ActIds : ChannelDelete_Delete(a)
    \/ \E k \in Slots :
        \E request \in { [channelId |-> "c2"],
                         [channelId |-> "c2", messageIds |-> {"m2"}],
                         [channelId |-> "c1", messageIds |-> {"m1", "m2"}] } :
            RecvMessagesDelete(k, "e1", request)
    \/ \E a \in ActIds : MessagesDelete_Delete(a)
    \/ \E c \in {"c1", "c2"} : SinkRequestStoredMessages("p1", c, {"m1", "m2"})
    \/ Sink_SendStoredMessages("p1")

SpecTenants == InitTenants /\ [][NextTenants]_vars

\* Fan-out: p1 (user u1) and p2 (user u2) on shard s1, p3 on shard s2; p1
\* and p2 subscribed to the private channel c1.
InitFanout ==
    Scenario({ PeerRow("p1", "A", "sink", "u1", "info1"),
               PeerRow("p2", "A", "sink", "u2", "info2"),
               PeerRow("p3", "A", "sink", Null, Null) },
             Placement("s1", "s1", "s2"), {"s1", "s2"},
             { ChannelRow("c1", "A", "general", "private", FALSE) },
             { SubscriptionRow(1, "A", "p1", "c1"),
               SubscriptionRow(2, "A", "p2", "c1") },
             {})

\* The socket of p1 goes bad; a broadcast, a send to c1 and the subscribe
\* of p3 to c1.
NextFanout ==
    \/ SocketBreaks("p1")
    \/ \E k \in Slots : RecvGlobalSend(k, "m1", "ev", "hello")
    \/ \E a \in ActIds : GlobalSend_DbPeers(a)
    \/ \E a \in ActIds : GlobalSend_Distributed(a)
    \/ \E k \in Slots : RecvMessagesSend(k, "m2", "c1", "ev", "hello")
    \/ \E a \in ActIds : MessagesSend_FindChannel(a)
    \/ \E a \in ActIds : MessagesSend_Subscriptions(a)
    \/ \E a \in ActIds : MessagesSend_Distributed(a)
    \/ \E k \in Slots : RecvSubscribersAdd(k, "e1", "p3", "c1")
    \/ \E a \in ActIds : SubscribersAdd_FindChannel(a)
    \/ \E a \in ActIds : SubscribersAdd_FindPeer(a)
    \/ \E a \in ActIds : SubscribersAdd_ExistingSubs(a)
    \/ \E a \in ActIds : SubscribersAdd_Insert(a)
    \/ \E a \in ActIds : SubscribersAdd_Distributed(a)

SpecFanout == InitFanout /\ [][NextFanout]_vars

\* -------------------------------------------------------------- the claims
CoordActs == { <<k, Coord>> : k \in Slots }
Finished(a) == acts[a].pc \in {"done", "threw"}
IsAdd(a) == acts[a].route = "channel.subscribers.add"

\* The frames the shards' activations of slot k have sent to peer p.
FramesOfSlot(k, p) == { acts[<<k, s>>].sent[p] : s \in Shards } \ { <<>> }

\* C1: in every reachable state the subscription table holds at most one row
\* for each (appId, peerId, channelId), under any interleaving of subscribe,
\* unsubscribe, channel delete and socket close.
C1_SubscriptionUnique ==
    \A r1 \in subscriptions : \A r2 \in subscriptions :
        (r1.appId = r2.appId /\ r1.peerId = r2.peerId
            /\ r1.channelId = r2.channelId) => r1 = r2

\* A second insert of a row that is in the table was attempted and refused.
C1_Witness ==
    \E a \in CoordActs :
        /\ IsAdd(a) /\ acts[a].pc = "threw" /\ acts[a].already
        /\ \E p \in acts[a].dbPeer : \E c \in acts[a].ch :
            Cardinality(findSubscription(acts[a].appId, p.id, c.id)) = 1

\* C2: a subscribe of a peer without authenticatedUserId to a private or
\* presence channel returns "Peer not authenticated", inserts no row and sends
\* no join-channel or member-join frame.
C2_PrivateRequiresAuthentication ==
    \A a \in CoordActs :
        ( /\ IsAdd(a)
          /\ \E c \in acts[a].ch : c.auth \in {"private", "presence"}
          /\ \E p \in acts[a].dbPeer : p.authenticatedUserId = Null )
        => /\ acts[a].pc = "done"
           /\ acts[a].resp = Err("Peer not authenticated")
           /\ ~ acts[a].inserted
           /\ \A p \in PeerIds : FramesOfSlot(a[1], p) = {}

\* C3: a subscribe of a never authenticated peer to a public channel of its
\* app succeeds: the row is inserted and the response is success.
C3_PublicNeedsNoAuthentication ==
    \A a \in CoordActs :
        ( /\ IsAdd(a) /\ Finished(a)
          /\ \E c \in acts[a].ch : c.auth = "public"
          /\ \E p \in acts[a].dbPeer : p.authenticatedUserId = Null )
        => /\ acts[a].pc = "done"
           /\ acts[a].inserted
           /\ acts[a].resp = Ok

\* C4: a subscribe of a peer that is already subscribed returns success,
\* inserts no second row and sends no second join-channel or member-join.
C4_DuplicateSubscribeSucceeds ==
    \A a \in CoordActs :
        (IsAdd(a) /\ Finished(a) /\ acts[a].already)
        => /\ acts[a].pc = "done"
           /\ acts[a].resp.success
           /\ ~ acts[a].inserted
           /\ \A p \in PeerIds : FramesOfSlot(a[1], p) = {}

\* C5: once hooks.close has started for a peer, the store comes to hold, and
\* from then on keeps holding, no peer row and no subscription row of that
\* peer, whatever subscribe and unsubscribe requests interleave with it.
C5_CloseReapsPeer ==
    \A p \in SinkIds :
        (closing[p].pc = "subs")
            ~> [] ( /\ closing[p].pc = "done"
                    /\ ~ \E r \in peers : r.id = p
                    /\ ~ \E r \in subscriptions : r.peerId = p )

\* hooks.close has finished for a peer while a subscribe for that peer, which
\* had read the peer row, failed on the reference to it.
C5_Witness ==
    \E p \in SinkIds : \E a \in CoordActs :
        /\ closing[p].pc = "done"
        /\ closing[p].connectedChannels # {}
        /\ IsAdd(a) /\ acts[a].pc = "threw"
        /\ acts[a].error = "FOREIGN KEY constraint failed"
        /\ \E r \in acts[a].dbPeer : r.id = p
        /\ ~ \E r \in peers : r.id = p
        /\ ~ \E r \in subscriptions : r.peerId = p

\* The number of member-leave frames for channel c in a sequence of frames.
LeavesFor(frames, c) ==
    Cardinality({ i \in 1..Len(frames) :
                    frames[i].event = "member-leave" /\ frames[i].channelId = c })

\* C6: the notifying step of hooks.close for p sends to every other peer q with
\* an open socket, on whatever shard, exactly one member-leave for each
\* channel that p was subscribed to and q still is, and no other frame.
C6_CloseNotifiesCoMembers ==
    [][ \A p \in SinkIds :
            (closing[p].pc = "notify" /\ closing'[p].pc = "done")
            => \A q \in SinkIds \ {p} : \A c \in ChannelIds :
                LET shared ==
                        /\ q \in live
                        /\ \E cc \in closing[p].connectedChannels :
                                cc.channelId = c
                        /\ \E r \in subscriptions :
                                r.peerId = q /\ r.channelId = c
                    sent == SubSeq(inbox'[q], Len(inbox[q]) + 1, Len(inbox'[q]))
                IN /\ LeavesFor(sent, c) = (IF shared THEN 1 ELSE 0)
                   /\ \A i \in 1..Len(sent) : sent[i].event = "member-leave"
      ]_vars

\* C7: the members of the join-channel frame of a successful subscribe are
\* exactly the other peers subscribed to the channel when the subscription
\* row was committed.
C7_JoinChannelMembersAtCommit ==
    \A k \in Slots : \A s \in Shards : \A p \in PeerIds :
        LET b == acts[<<k, s>>] IN
        (b.route = "channel.subscribers.add" /\ b.pc = "done"
            /\ b.resp.success)
        => \A i \in 1..Len(b.sent[p]) :
            b.sent[p][i].event = "join-channel"
            => b.sent[p][i].members =
                { member(b.sent[p][i].channelAuthMode, r) :
                    r \in acts[<<k, Coord>>].atCommit }

\* C8: a channel.messages.send to a channel with store = true that the
\* coordinator answered with success has exactly one stored row with the
\* envelope's id, for zero, one or several registered shards.
C8_AcknowledgedSendIsStored ==
    \A k \in Slots :
        LET a == acts[<<k, Coord>>] IN
        ( /\ a.route = "channel.messages.send"
          /\ a.pc = "done"
          /\ a.resp.success
          /\ \E c \in channels :
                c.id = a.req.channelId /\ c.appId = a.appId /\ c.store )
        => Cardinality({ m \in storedMessages :
                            m.id = a.id /\ m.channelId = a.req.channelId }) = 1

\* The createdAt of the stored message with the given id.
createdAtOf(id) == (CHOOSE m \in storedMessages : m.id = id).createdAt

\* The step of hooks.message that answers the request-stored-messages of p.
AnswersStoredMessages(p) ==
    sinkreq[p].pc = "query" /\ sinkreq'[p].pc = "done"

\* C9: the answer to a sink's request-stored-messages for a set S of ids that
\* are all stored for the named channel is |S| message frames to that sink,
\* one per id of S, in ascending createdAt order.
C9_StoredMessagesRoundTrip ==
    [][ \A p \in SinkIds :
            ( /\ AnswersStoredMessages(p)
              /\ p \in live
              /\ \A id \in sinkreq[p].messageIds :
                    \E m \in storedMessages : \E r \in peers :
                        /\ r.id = p /\ m.appId = r.appId
                        /\ m.id = id /\ m.channelId = sinkreq[p].channelId )
            => LET S == sinkreq[p].messageIds
                   sent == SubSeq(inbox'[p], Len(inbox[p]) + 1, Len(inbox'[p]))
               IN /\ Len(sent) = Cardinality(S)
                  /\ { sent[i].id : i \in 1..Len(sent) } = S
                  /\ \A i \in 1..Len(sent) : sent[i].source = "message"
                  /\ \A i \in 1..Len(sent) : \A j \in 1..Len(sent) :
                        i < j => createdAtOf(sent[i].id) <= createdAtOf(sent[j].id)
      ]_vars

\* A sink was answered two stored messages of different createdAt.
C9_Witness ==
    \E p \in SinkIds :
        /\ sinkreq[p].pc = "done"
        /\ Cardinality(sinkreq[p].messageIds) = 2
        /\ Len(sinkreq[p].sent) = 2
        /\ inbox[p] # <<>>
        /\ \E m1 \in storedMessages : \E m2 \in storedMessages :
            /\ m1.id = sinkreq[p].sent[1].id
            /\ m2.id = sinkreq[p].sent[2].id
            /\ m1.createdAt < m2.createdAt

\* C10: the answer to a request-stored-messages that names a channel the sink
\* is not subscribed to holds no message frame.
C10_StoredMessagesOnlyForSubscribed ==
    [][ \A p \in SinkIds :
            ( /\ AnswersStoredMessages(p)
              /\ ~ \E r \in subscriptions :
                    r.peerId = p /\ r.channelId = sinkreq[p].channelId )
            => inbox'[p] = inbox[p]
      ]_vars

\* The frames the shards' activations of slot k have sent to peer p, each
\* with the shard that sent it.
SentOfSlot(k, p) ==
    UNION { { <<s, i, acts[<<k, s>>].sent[p][i]>> :
                i \in 1..Len(acts[<<k, s>>].sent[p]) } : s \in Shards }

\* C11: a frame from a sink that is neither ping nor a request for stored
\* messages changes no table, sends no frame to any peer and starts no
\* activation of handleSource, a well-formed source envelope included.
C11_OtherSinkFramesIgnored ==
    [][ \A p \in SinkIds :
            ( /\ sinkreq'[p] # sinkreq[p]
              /\ HasField(sinkreq'[p], "frame")
              /\ sinkreq'[p].frame \in OtherSinkFrames )
            => /\ store' = store
               /\ inbox' = inbox
               /\ acts' = acts
               /\ sinkreq'[p].pc = "done"
      ]_vars

\* A sink has sent a well-formed global.messages.send envelope, and nobody
\* has received anything.
C11_Witness ==
    \E p \in SinkIds :
        /\ HasField(sinkreq[p], "frame")
        /\ sinkreq[p].frame.isJson
        /\ ServerRequestSchema_safeParse(sinkreq[p].frame.json)
        /\ sinkreq[p].frame.json.data.route = "global.messages.send"
        /\ sinkreq[p].pc = "done"
        /\ inbox = NoFrames
        /\ \A a \in ActIds : acts[a].pc = "idle"

ShardActs == Slots \X Shards

IsSend(a) == acts[a].route = "channel.messages.send"

IsUserSend(a) == acts[a].route = "user.messages.send"

\* C14: the coordinator's answer to user.messages.send is success exactly
\* when at least one of the shards it asked answered success; otherwise it
\* is a failure with an error.
C14_DirectSuccessIsDisjunction ==
    \A a \in CoordActs :
        (IsUserSend(a) /\ acts[a].pc = "done")
        => /\ acts[a].resp.success
                <=> \E s \in acts[a].spawned :
                        /\ acts[<<a[1], s>>].pc = "done"
                        /\ acts[<<a[1], s>>].resp.success
           /\ ~ acts[a].resp.success => acts[a].resp.error # ""

\* The coordinator answered success: one shard delivered, the other answered
\* that it cannot find the peer.
C14_Witness ==
    \E a \in CoordActs :
        /\ IsUserSend(a) /\ acts[a].pc = "done" /\ acts[a].resp = Ok
        /\ acts[<<a[1], "s1">>].resp = Ok
        /\ acts[<<a[1], "s1">>].sent["p1"] # <<>>
        /\ acts[<<a[1], "s2">>].resp = Err("Peer not found")
        /\ acts[a].spawned = {"s1", "s2"}

\* The peer rows of the app that recipientId names.
Addressed(appId, recipientId) ==
    { r \in peers :
        r.appId = appId
        /\ (r.id = recipientId \/ r.authenticatedUserId = recipientId) }

\* C15: a shard's step of user.messages.send sends its direct frame only to
\* a peer the recipientId names; and when the coordinator answers, a frame
\* has been delivered to such a peer if one of them has its socket open, and
\* the answer is success exactly when a frame was delivered.
C15_DirectDelivery ==
    [][ /\ \A b \in ShardActs :
            (IsUserSend(b) /\ acts[b].pc = "user_peer" /\ acts'[b].pc = "done")
            => \A p \in PeerIds :
                inbox'[p] # inbox[p]
                => /\ \E r \in Addressed(acts[b].appId, acts[b].req.recipientId) :
                        r.id = p
                   /\ inbox'[p] = Append(inbox[p],
                            [source |-> "message", id |-> acts[b].id,
                             event |-> acts[b].req.event,
                             from |-> [source |-> "direct"],
                             message |-> acts[b].req.message])
        /\ \A a \in CoordActs :
            (IsUserSend(a) /\ acts[a].pc = "await" /\ acts'[a].pc = "done")
            => LET delivered == \E p \in PeerIds : SentOfSlot(a[1], p) # {}
               IN /\ (\E r \in Addressed(acts[a].appId, acts[a].req.recipientId) :
                            r.id \in live) => delivered
                  /\ acts'[a].resp.success <=> delivered
      ]_vars

\* C16: user.messages.send whose recipientId names no peer of the app is
\* answered {success: false, error: "Recipient not found"} and no frame is
\* delivered.
C16_RecipientNotFound ==
    \A a \in CoordActs :
        ( /\ IsUserSend(a) /\ acts[a].pc = "done"
          /\ \A p \in PeerIds : closing[p].pc = "idle"
          /\ Addressed(acts[a].appId, acts[a].req.recipientId) = {} )
        => /\ acts[a].resp = Err("Recipient not found")
           /\ \A p \in PeerIds : SentOfSlot(a[1], p) = {}

IsRemove(a) == acts[a].route = "channel.subscribers.remove"

\* The subscription rows of a peer in a channel.
RowsOf(peerId, channelId) ==
    { r \in subscriptions : r.peerId = peerId /\ r.channelId = channelId }

\* The frames that the step now taken appends to the inbox of p.
NewFrames(p) == SubSeq(inbox'[p], Len(inbox[p]) + 1, Len(inbox'[p]))

\* The number of frames of a sequence with the given event.
CountEvent(frames, event) ==
    Cardinality({ i \in 1..Len(frames) :
                    HasField(frames[i], "event") /\ frames[i].event = event })

\* C17: when channel.subscribers.remove has found the channel and the peer
\* and no subscription row joins them, its answer is {success: false,
\* error: "Peer is not subscribed to channel"}, no table changes, no shard
\* is asked and no frame is sent.
C17_RemoveRequiresSubscription ==
    [][ \A a \in CoordActs :
            ( /\ IsRemove(a) /\ acts[a].pc = "rm_isin" /\ acts'[a] # acts[a]
              /\ \A c \in acts[a].ch : \A p \in acts[a].dbPeer :
                    RowsOf(p.id, c.id) = {} )
            => /\ acts'[a].pc = "done"
               /\ acts'[a].resp = Err("Peer is not subscribed to channel")
               /\ acts'[a].spawned = {}
               /\ store' = store
               /\ inbox' = inbox
               /\ \A s \in Shards : acts'[<<a[1], s>>] = acts[<<a[1], s>>]
      ]_vars

\* An unsubscribe from a channel was refused for a peer that is subscribed
\* to the other channel; its subscription is still there.
C17_Witness ==
    \E a \in CoordActs :
        /\ IsRemove(a) /\ acts[a].pc = "done"
        /\ acts[a].resp = Err("Peer is not subscribed to channel")
        /\ \E p \in acts[a].dbPeer :
            /\ RowsOf(p.id, acts[a].req.channelId) = {}
            /\ \E r \in subscriptions : r.peerId = p.id
        /\ \A q \in PeerIds : SentOfSlot(a[1], q) = {}

\* C18: the delete of a channel.subscribers.remove takes the (peer, channel)
\* row out of the table and nothing else; the shard's notifying step sends
\* one leave-channel to the leaving peer, one member-leave to every other
\* peer subscribed to the channel, and no member-leave to the leaving peer
\* (to sockets the shard holds).
C18_RemoveNotifies ==
    [][ /\ \A a \in CoordActs :
            (IsRemove(a) /\ acts[a].pc = "rm_delete" /\ acts'[a] # acts[a])
            => \A c \in acts[a].ch : \A l \in acts[a].dbPeer :
                subscriptions' = subscriptions \ RowsOf(l.id, c.id)
        /\ \A b \in ShardActs :
            (IsRemove(b) /\ acts[b].pc = "rm_subs" /\ acts'[b].pc = "done")
            => \A c \in acts[b].ch : \A l \in acts[b].dbPeer : \A p \in PeerIds :
                LET here == p \in live /\ shardOf[p] = b[2] IN
                /\ CountEvent(NewFrames(p), "leave-channel") =
                        (IF here /\ p = l.id THEN 1 ELSE 0)
                /\ CountEvent(NewFrames(p), "member-leave") =
                        (IF here /\ p # l.id /\ RowsOf(p, c.id) # {}
                         THEN 1 ELSE 0)
      ]_vars

\* C19: the shard's notifying step of a subscribe sends one join-channel to
\* the joining peer and no member-join to it, and one member-join naming the
\* new member to every other peer subscribed to the channel (to sockets the
\* shard holds); and when the coordinator answers success, the shards
\* together have sent the joining peer one join-channel and nobody more than
\* one member-join.
C19_SubscribeNotifies ==
    [][ /\ \A b \in ShardActs :
            (IsAdd(b) /\ acts[b].pc = "add_subs" /\ acts'[b].pc = "done")
            => \A c \in acts[b].ch : \A l \in acts[b].dbPeer : \A p \in PeerIds :
                LET here == p \in live /\ shardOf[p] = b[2]
                    new == NewFrames(p) IN
                /\ CountEvent(new, "join-channel") =
                        (IF here /\ p = l.id THEN 1 ELSE 0)
                /\ CountEvent(new, "member-join") =
                        (IF here /\ p # l.id /\ RowsOf(p, c.id) # {}
                         THEN 1 ELSE 0)
                /\ \A i \in 1..Len(new) :
                        new[i].event = "member-join"
                        => /\ new[i].channelId = c.id
                           /\ new[i].member.id =
                                (IF l.authenticatedUserId # Null
                                 THEN l.authenticatedUserId ELSE l.id)
                           /\ new[i].member.userInfo =
                                (IF c.auth = "presence" THEN l.userInfo
                                 ELSE Undefined)
        /\ \A a \in CoordActs :
            (IsAdd(a) /\ acts[a].pc = "await" /\ acts'[a].pc = "done"
                /\ acts'[a].resp.success)
            => \A l \in acts[a].dbPeer : \A p \in PeerIds :
                LET got == { x \in SentOfSlot(a[1], p) : TRUE } IN
                /\ Cardinality({ x \in got : x[3].event = "join-channel" }) =
                        (IF p = l.id /\ p \in live THEN 1 ELSE 0)
                /\ Cardinality({ x \in got : x[3].event = "member-join" }) <= 1
                /\ p = l.id => \A x \in got : x[3].event # "member-join"
      ]_vars

\* p3 has joined c1: it has its join-channel from shard s1, p1 on the same
\* shard and p2 on shard s2 each have a member-join naming p3.
C19_Witness ==
    \E a \in CoordActs :
        /\ IsAdd(a) /\ acts[a].pc = "done" /\ acts[a].resp = Ok
        /\ acts[a].req.subscriberId = "p3" /\ acts[a].req.channelId = "c1"
        /\ CountEvent(acts[<<a[1], "s1">>].sent["p3"], "join-channel") = 1
        /\ CountEvent(acts[<<a[1], "s1">>].sent["p1"], "member-join") = 1
        /\ CountEvent(acts[<<a[1], "s2">>].sent["p2"], "member-join") = 1
        /\ acts[<<a[1], "s2">>].sent["p2"][1].member.id = "p3"

\* The join-channel frames among a sequence of frames.
JoinFrames(frames) ==
    { frames[i] : i \in { j \in 1..Len(frames) :
                            frames[j].event = "join-channel" } }

FramesWith(p, event) ==
    { inbox[p][i] : i \in { j \in 1..Len(inbox[p]) :
                              HasField(inbox[p][j], "event")
                              /\ inbox[p][j].event = event } }

\* C21: in a join-channel, member-join or member-leave frame of a channel
\* whose auth mode is not presence, every member entry carries no userInfo.
C21_UserInfoOnlyForPresence ==
    \A p \in PeerIds : \A c \in channels :
        c.auth # "presence" =>
            /\ \A f \in FramesWith(p, "join-channel") :
                    f.channelId = c.id
                    => \A m \in f.members : m.userInfo = Undefined
            /\ \A f \in FramesWith(p, "member-join") \cup
                         FramesWith(p, "member-leave") :
                    f.channelId = c.id => f.member.userInfo = Undefined

\* In a channel that is not a presence channel, p1 has joined beside p2 and
\* a member has left: the three kinds of frame are in the inboxes, naming
\* peers whose rows hold user info.
C21_Witness ==
    /\ \E c \in channels : c.id = "c1" /\ c.auth # "presence"
    /\ \E f \in FramesWith("p1", "join-channel") :
            \E m \in f.members : m.id = "u2"
    /\ \E f \in FramesWith("p2", "member-join") : f.member.id = "u1"
    /\ \E q \in PeerIds : FramesWith(q, "member-leave") # {}

IsCreate(a) == acts[a].route = "channel.create"

\* No two channel rows of an app share a name.
ChannelNamesUnique ==
    \A c, d \in channels : (c.appId = d.appId /\ c.name = d.name) => c = d

\* C22: no step leaves two channels of an app with the same name; a
\* channel.create that finds its name in the table goes on to the update and
\* not to the insert; and the update of a row that is still there changes
\* its auth and store to the requested ones, adds no row and answers with
\* the id of that row.
C22_CreateKeepsNamesUnique ==
    [][ /\ ChannelNamesUnique'
        /\ \A a \in CoordActs :
            /\ ( /\ IsCreate(a) /\ acts[a].pc = "create_existing"
                  /\ acts'[a] # acts[a]
                  /\ \E c \in channels : c.appId = acts[a].appId
                                         /\ c.name = acts[a].req.name )
                => acts'[a].pc = "create_update" /\ channels' = channels
            /\ ( /\ IsCreate(a) /\ acts[a].pc = "create_update"
                  /\ acts'[a] # acts[a] )
                => \A e \in acts[a].ch :
                    IF \E c \in channels : c.id = e.id
                    THEN /\ acts'[a].pc = "done" /\ acts'[a].resp.success
                         /\ acts'[a].resp.channelId = e.id
                         /\ { c.id : c \in channels' } = { c.id : c \in channels }
                         /\ Cardinality(channels') = Cardinality(channels)
                         /\ \A c \in channels' :
                                IF c.id = e.id
                                THEN /\ c.auth = acts[a].req.authMode
                                     /\ c.store = acts[a].req.storeMessages
                                     /\ c.name = e.name /\ c.appId = e.appId
                                ELSE c \in channels
                    ELSE channels' = channels
      ]_vars

\* Two channel.create requests for the same new name ran concurrently: both
\* found no row, one inserted it, the insert of the other was refused, and
\* one channel has the name.
C22_Witness ==
    /\ \E a, b \in CoordActs :
        /\ a # b /\ IsCreate(a) /\ IsCreate(b)
        /\ acts[a].req.name = "fresh" /\ acts[b].req.name = "fresh"
        /\ acts[a].ch = {} /\ acts[b].ch = {}
        /\ acts[a].pc = "done" /\ acts[a].inserted
        /\ acts[b].pc = "threw"
    /\ Cardinality({ c \in channels : c.name = "fresh" }) = 1

\* C23: every subscription row names a channel and a peer that exist, and
\* every stored message names a channel that exists.
C23_RowsReferenceExistingRows ==
    /\ \A r \in subscriptions :
        /\ \E c \in channels : c.id = r.channelId
        /\ \E p \in peers : p.id = r.peerId
    /\ \A m \in storedMessages : \E c \in channels : c.id = m.channelId

\* A subscribe or a send had read the channel, the channel was deleted, and
\* the insert that followed was refused.
C23_Witness ==
    \E a \in ActIds :
        /\ IsAdd(a) \/ IsSend(a)
        /\ acts[a].pc = "threw"
        /\ \E c \in acts[a].ch : ~ \E d \in channels : d.id = c.id

\* C24: every stored message belongs to a channel whose store flag is true.
C24_StoredOnlyWhereStoreIsTrue ==
    \A m \in storedMessages :
        \E c \in channels : c.id = m.channelId /\ c.store

IsMessagesDelete(a) == acts[a].route = "channel.messages.delete"

\* C25: the delete of channel.messages.delete removes, of the stored
\* messages of the request's channel in the source's app, all of them when
\* messageIds is absent or empty and those whose id is listed otherwise; it
\* removes no other stored message, adds none, and answers success.
C25_MessagesDeleteFrame ==
    [][ \A a \in CoordActs :
            (IsMessagesDelete(a) /\ acts[a].pc = "msgdel_delete"
                /\ acts'[a] # acts[a])
            => LET req == acts[a].req
                   all == ~ HasField(req, "messageIds") \/ req.messageIds = {}
               IN /\ storedMessages' \subseteq storedMessages
                  /\ \A m \in storedMessages :
                        m \notin storedMessages' <=>
                            /\ m.appId = acts[a].appId
                            /\ m.channelId = req.channelId
                            /\ all \/ m.id \in req.messageIds
                  /\ acts'[a].resp = Ok
                  /\ <<peers, channels, subscriptions>>' =
                        <<peers, channels, subscriptions>>
      ]_vars

\* A delete for c1 that listed m1 and m3 has run: m1 is gone, m2 of the
\* same channel and m3 of the other app's channel are still stored.
C25_Witness ==
    /\ \E a \in CoordActs :
        /\ IsMessagesDelete(a) /\ acts[a].pc = "done"
        /\ acts[a].req.channelId = "c1"
        /\ HasField(acts[a].req, "messageIds")
        /\ acts[a].req.messageIds = {"m1", "m3"}
    /\ { m.id : m \in storedMessages } = {"m2", "m3"}

\* No hooks.open and no hooks.close is under way.
HooksComplete ==
    \A p \in SinkIds :
        opening[p].pc \in {"idle", "done"} /\ closing[p].pc \in {"idle", "done"}

\* C26: when no open or close handler is under way, a peer row exists
\* exactly for the sockets that are open.
C26_PeerRowIffSocketOpen ==
    HooksComplete =>
        \A p \in SinkIds : (\E r \in peers : r.id = p) <=> p \in live

\* The key p presented is a key (neither absent nor empty) and not the
\* secretKey of the app it connected to.
WrongKey(p) ==
    /\ opening[p].pc # "idle"
    /\ opening[p].appKey # Null /\ opening[p].appKey # ""
    /\ \A a \in apps : a.id = opening[p].appId => a.secretKey # opening[p].appKey

KnownApp(request) == \E a \in apps : a.id = request.appId /\ a.enabled

\* The request carries "Bearer" and the secretKey of its app.
GoodBearer(request) ==
    /\ HasField(request, "authorization")
    /\ \E a \in apps : /\ a.id = request.appId
                        /\ request.authorization = <<"Bearer", a.secretKey>>

\* C28: an HTTP request for an unknown or disabled app is answered 404; for
\* a known app, one without a matching Bearer token 401; with the token, one
\* that is not a POST 405; a POST whose body fails validation 400; and a
\* request answered with one of these runs no route, changes no table and
\* sends no frame.
C28_HttpRejections ==
    [][ \A k \in Slots : \A request \in FetchRequests :
            Fetch(k, request) =>
                LET act == acts'[<<k, Coord>>]
                    status == IF act.pc = "rejected" THEN act.resp.status ELSE 200
                IN /\ ~ KnownApp(request) => status = 404
                   /\ (KnownApp(request) /\ ~ GoodBearer(request))
                        => status = 401
                   /\ (KnownApp(request) /\ GoodBearer(request)
                            /\ request.method # "POST") => status = 405
                   /\ (KnownApp(request) /\ GoodBearer(request)
                            /\ request.method = "POST"
                            /\ request.body.route # "broadcast") => status = 400
                   /\ status # 200 =>
                        /\ act.route = "" /\ act.spawned = {}
                        /\ store' = store /\ inbox' = inbox
                        /\ \A s \in Shards : acts'[<<k, s>>] = acts[<<k, s>>]
      ]_vars

\* One request was answered 400 and another 404, and nobody has received a
\* frame.
C28_Witness ==
    /\ \E a, b \in CoordActs :
        /\ acts[a].pc = "rejected" /\ acts[a].resp.status = 400
        /\ acts[b].pc = "rejected" /\ acts[b].resp.status = 404
    /\ \A p \in PeerIds : inbox[p] = <<>>

\* The frames the source has received that carry the id of its k-th envelope.
RepliesTo(k) ==
    { i \in 1..Len(inbox[SourceId]) : inbox[SourceId][i].id = EnvelopeId(k) }

\* C29: every envelope the source has sent is eventually answered by
\* exactly one frame with its id, never by more; and the answer to an
\* envelope that failed validation is a failure, no route having run.
C29_EveryEnvelopeAnswered ==
    /\ \A k \in Slots :
        (acts[<<k, Coord>>].pc # "idle") ~> (Cardinality(RepliesTo(k)) = 1)
    /\ [](\A k \in Slots :
            /\ Cardinality(RepliesTo(k)) <= 1
            /\ (acts[<<k, Coord>>].pc = "replied"
                    /\ acts[<<k, Coord>>].route = "")
                => \A i \in RepliesTo(k) :
                        /\ HasField(inbox[SourceId][i], "status")
                        /\ inbox[SourceId][i].status = 400)

\* C30: when handleSource throws for an envelope, the source eventually
\* receives for it the reply {success: false, error: "Unknown error"}.
C30_StoreErrorIsReported ==
    \A k \in Slots :
        (acts[<<k, Coord>>].pc = "threw") ~>
            (\E i \in RepliesTo(k) :
                /\ HasField(inbox[SourceId][i], "response")
                /\ inbox[SourceId][i].response = Err("Unknown error"))

\* The peers a finished fan-out on shard b[2] was to reach: for a broadcast
\* the app's peers, for the other routes the subscribers of the channel; of
\* those, the ones that hold a socket on the shard.
FanoutTargets(b) ==
    { p \in getPeerMap(b[2]) :
        IF acts[b].route = "global.messages.send"
        THEN p \in peerIdSet(acts[b].appId)
        ELSE /\ acts[b].route = "channel.messages.send"
             /\ \E r \in channelSubscriptions(acts[b].appId,
                                               acts[b].req.channelId) :
                    r.peerId = p }

\* C31: a failing send to one peer during a fan-out neither fails the
\* request nor stops the delivery to the remaining target peers, and a
\* subscription that was committed stays committed: the broadcast and the
\* channel send answer success, every target whose socket is good has the
\* frame once the shard has finished, and the row the subscribe inserted
\* is in the table.
C31_SendFailureIsSwallowed ==
    /\ \A a \in CoordActs :
        (acts[a].pc = "done"
            /\ acts[a].route \in {"global.messages.send", "channel.messages.send"})
        => acts[a].resp.success
    /\ \A b \in ShardActs :
        Finished(b) =>
            \A p \in FanoutTargets(b) \ broken : acts[b].sent[p] # <<>>
    /\ \A a \in CoordActs :
        (IsAdd(a) /\ acts[a].inserted)
        => \E r \in subscriptions : r.peerId = "p3" /\ r.channelId = "c1"

CoordinatorRoutes ==
    { "user.authenticate", "channel.create", "channel.delete",
      "channel.messages.delete" }

\* C32: user.authenticate, channel.create, channel.delete and
\* channel.messages.delete executed on a worker shard, where there is no
\* coordinator instance, return {success: false, error: "Invalid
\* connection"}, and no step of such an execution changes the store.
C32_InvalidConnectionOnShard ==
    [][\A b \in ShardActs :
        (acts'[b] # acts[b] /\ acts'[b].route \in CoordinatorRoutes)
        => /\ acts'[b].pc = "done"
           /\ acts'[b].resp = Err("Invalid connection")
           /\ store' = store]_vars

\* A channel.delete of the existing channel c1 was handled on the shard s1.
C32_Witness ==
    \E b \in ShardActs :
        /\ acts[b].route = "channel.delete" /\ acts[b].req.channelId = "c1"
        /\ acts[b].pc = "done"
        /\ \E c \in channels : c.id = "c1"

\* The type tag, the index and the payload of `got` are those of `sent`.
SameMessage(got, sent) ==
    /\ got.type = sent.type
    /\ HasField(got, "index") = HasField(sent, "index")
    /\ HasField(sent, "index") => got.index = sent.index
    /\ got.message = sent.message

Subscribed(p, c) ==
    \E r \in subscriptions : r.peerId = p.id /\ r.channelId = c.id

\* C34: whenever channel.subscribers.add or channel.subscribers.remove
\* answers success: false, the request has left the subscription table as
\* it was: the row a failed subscribe inserted is not in the table, and the
\* row a failed unsubscribe deleted is, unless its peer or its channel has
\* gone since (and the row with it).
C34_FailureLeavesSubscriptions ==
    \A a \in CoordActs :
        (acts[a].pc = "done" /\ ~ acts[a].resp.success)
        => \A p \in acts[a].dbPeer : \A c \in acts[a].ch :
            /\ (IsAdd(a) /\ acts[a].inserted) => ~ Subscribed(p, c)
            /\ (IsRemove(a) /\ acts[a].isInChannel # {})
                => \/ Subscribed(p, c)
                   \/ ~ \E r \in peers : r.id = p.id
                   \/ ~ \E r \in channels : r.id = c.id

\* No handler is suspended: every request has been answered or has thrown,
\* and every close hook that started has finished.
Quiescent ==
    /\ \A a \in ActIds : acts[a].pc \in {"idle", "done", "threw", "replied"}
    /\ \A p \in PeerIds : closing[p].pc \in {"idle", "done"}

\* The ids under which the subscribers of channel c other than q are
\* announced: authenticatedUserId if set, otherwise the peer id.
OtherMembers(q, c) ==
    { member("presence", r).id :
        r \in { x \in peers : x.id # q /\ \E sub \in subscriptions :
                    sub.peerId = x.id /\ sub.channelId = c } }

\* C35: for p2, which stays subscribed to the presence channel c1 and was
\* alone in it at the start, the members its client has built from
\* join-channel, member-join and member-leave are, once no handler is
\* suspended, the other subscribers of c1: every member-join about a peer
\* whose subscription has gone (by unsubscribe or by the close of its
\* socket) has been followed by a member-leave about it.
C35_MemberViewConverges ==
    (/\ Quiescent
     /\ \E c \in channels : c.id = "c1" /\ c.auth = "presence"
     /\ "p2" \in live /\ closing["p2"].pc = "idle"
     /\ \E r \in subscriptions : r.peerId = "p2" /\ r.channelId = "c1")
    => Range(PresenceSinker_members(<<>>, inbox["p2"], "c1"))
            = OtherMembers("p2", "c1")

\* C36: the member.id of a member-leave frame that hooks.close sends for
\* the closed peer p is the id under which p was announced in member-join
\* and join-channel frames (authenticatedUserId if set, otherwise the peer
\* id), and never the id of the peer q that receives the frame.
C36_CloseLeaveNamesClosedPeer ==
    \A p \in SinkIds : \A q \in PeerIds :
        \A i \in 1..Len(closing[p].sent[q]) :
            LET f == closing[p].sent[q][i] IN
            /\ f.member.id # q
            /\ \A r \in closing[p].peerInfo :
                    f.member.id = member("presence", r).id

\* The init frames of a sequence of frames.
InitFrames(frames) ==
    { i \in 1..Len(frames) : frames[i].source = "metadata" /\ frames[i].event = "init" }

\* C37: the first frame a peer receives is its init frame: whatever a sink
\* has received starts with an init frame that carries the sink's own peer
\* id, and holds no second init frame.
C37_InitIsFirstFrame ==
    \A p \in SinkIds :
        inbox[p] # <<>> =>
            /\ InitFrames(inbox[p]) = {1}
            /\ inbox[p][1].peerId = p

\* The rows of the store that belong to app B or name a peer, a channel or
\* a message of app B.
RowsOfAppB ==
    [peers |-> { r \in peers : r.appId = "B" \/ r.id = "p3" },
     channels |-> { c \in channels : c.appId = "B" \/ c.id = "c2" },
     subscriptions |-> { r \in subscriptions :
                            r.appId = "B" \/ r.peerId = "p3" \/ r.channelId = "c2" },
     storedMessages |-> { m \in storedMessages :
                            m.appId = "B" \/ m.channelId = "c2" \/ m.id = "m2" }]

\* C38: no request made for app A touches app B: the rows of app B stay as
\* they were, no row joins a peer or channel of app B to app A, the peer of
\* app B on the shared shard receives no frame, and the peer of app A
\* receives no stored message of app B.
C38_RequestsStayInTheirApp ==
    /\ RowsOfAppB =
        [peers |-> { PeerRow("p3", "B", "sink", "u1", "infoB") },
         channels |-> { ChannelRow("c2", "B", "secret", "private", TRUE) },
         subscriptions |-> { SubscriptionRow(1, "B", "p3", "c2") },
         storedMessages |-> { MessageRow("m2", "B", "c2", 0, JSON_stringify(
                [channelId |-> "c2", event |-> "ev", message |-> "secret"])) }]
    /\ inbox["p3"] = <<>>
    /\ \A i \in 1..Len(inbox["p1"]) :
            /\ inbox["p1"][i].id # "m2"
            /\ inbox["p1"][i].source = "message" =>
                    inbox["p1"][i].message # "secret"

\* A direct send of app A to the user u1, whom a peer of each app has
\* authenticated as, has been answered with success on the shard the two
\* apps share, and p1 has received its frame.
C38_Witness ==
    \E k \in Slots :
        /\ acts[<<k, "s1">>].route = "user.messages.send"
        /\ acts[<<k, "s1">>].pc = "done"
        /\ acts[<<k, "s1">>].req.recipientId = "u1"
        /\ acts[<<k, "s1">>].resp = Ok
        /\ inbox["p1"] # <<>>

\* C39: every subscription to a private or presence channel belongs to a
\* peer whose authenticatedUserId is set.
C39_PrivateSubscribersAuthenticated ==
    \A r \in subscriptions : \A c \in channels : \A p \in peers :
        (c.id = r.channelId /\ p.id = r.peerId /\ c.auth \in {"private", "presence"})
            => p.authenticatedUserId # Null

====
